---- MODULE Spec2Model ----
(***************************************************************************)
(* A model of rpa-doc: the WorkflowMetadata model object, the XamlProcessor *)
(* extractor and its type-attribute parser.                                 *)
(*                                                                          *)
(* A JavaScript string is a finite sequence of characters.  A character is  *)
(* written here as a one-element TLA+ string; a word that the code never     *)
(* looks inside ("InArgument", "String") stands for its characters as one   *)
(* element, so that <<"InArgument", "(", "x", ":", "String", ")">> is the    *)
(* string "InArgument(x:String)".  " " and "\n" are the whitespace           *)
(* characters.                                                              *)
(*                                                                          *)
(* WorkflowMetadata is modelled from its later revision (the one that has   *)
(* setProjectFilePath, which OutputMarkdown.writeFile and the command line   *)
(* call); app/WorkflowMetadata.js is the earlier revision of the same class. *)
(***************************************************************************)
EXTENDS Integers, Sequences, FiniteSets, TLC

VARIABLES
  metadata,   \* the WorkflowMetadata object under test, or NoObject
  last,       \* the last call made on it: operation, arguments, outcome
  hist,       \* what the setters of the object under test have been given
  token,      \* parseArgumentTypeAttribute: the value passed
  parsed,     \* parseArgumentTypeAttribute: what the call produced
  doc,        \* getMetadata: the file the path names
  pc,         \* getMetadata: position in the function body
  xmeta,      \* getMetadata: the local variable `metadata`
  xargs,      \* getMetadata: workflowArguments not yet passed to addArgument
  xerr,       \* getMetadata: the error thrown and the statement that threw it
  probe,      \* a direct call of one extraction function on the document
  disk,       \* what is at the output path: nothing, a file, or a directory and its files
  output,     \* the OutputMarkdown object, or NoOutput
  project,    \* the UiPath project: its path, its directory, its private workflows
  heap,       \* the Map objects made by `new Map()`, in the order they were made
  models,     \* the WorkflowMetadata objects one XamlProcessor has returned
  cli         \* the command line program: its options, its position, its arrays

world == <<disk, output, project, heap, models, cli>>

vars == <<metadata, last, hist, token, parsed, doc, pc, xmeta, xargs, xerr, probe, world>>

----------------------------------------------------------------------------
(* Bounds *)

MaxArgs == 2      \* entries in the arguments map of the object under test
MaxTokenLen == 3  \* characters in a malformed type token
MaxCalls == 3
MaxMembers == 2   \* x:Property elements in a document

----------------------------------------------------------------------------
(* JavaScript values and string primitives *)

Undefined == [t |-> "undefined", s |-> <<>>]
Obj == [t |-> "object", s |-> <<>>]
Str(s) == [t |-> "string", s |-> s]

\* `!v || typeof v !== "string"`: undefined and "" are falsy, an object is
\* truthy but not a string.
notAString(v) == (v.t = "undefined" \/ (v.t = "string" /\ v.s = <<>>)) \/ v.t # "string"

Whitespace == {" ", "\n"}

RECURSIVE trimStart(_)
trimStart(s) ==
  IF s = <<>> THEN s
  ELSE IF Head(s) \in Whitespace THEN trimStart(Tail(s)) ELSE s

RECURSIVE trimEnd(_)
trimEnd(s) ==
  IF s = <<>> THEN s
  ELSE IF s[Len(s)] \in Whitespace THEN trimEnd(SubSeq(s, 1, Len(s) - 1)) ELSE s

trim(s) == trimEnd(trimStart(s))

\* String.prototype.indexOf for a one-character pattern: first position,
\* counted from 0, or -1.
RECURSIVE indexFrom(_, _, _)
indexFrom(s, c, i) ==
  IF i > Len(s) THEN -1
  ELSE IF s[i] = c THEN i - 1 ELSE indexFrom(s, c, i + 1)

indexOf(s, c) == indexFrom(s, c, 1)

\* String.prototype.replace with a string pattern: the first occurrence only.
replace(s, c, r) ==
  LET i == indexOf(s, c)
  IN IF i = -1 THEN s
     ELSE SubSeq(s, 1, i) \o r \o SubSeq(s, i + 2, Len(s))

\* replace( /[\r\n]+/, " " ): the first run of line breaks becomes one space.
RECURSIVE runEnd(_, _)
runEnd(s, i) == IF i + 1 <= Len(s) /\ s[i + 1] = "\n" THEN runEnd(s, i + 1) ELSE i

replaceLineBreaks(s) ==
  LET i == indexOf(s, "\n")
  IN IF i = -1 THEN s
     ELSE SubSeq(s, 1, i) \o <<" ">> \o SubSeq(s, runEnd(s, i + 1) + 1, Len(s))

\* String.prototype.slice( start, end ): a negative index counts from the
\* end, both are clamped to the string, an empty range gives "".
sliceIndex(n, i) ==
  IF i < 0 THEN (IF n + i < 0 THEN 0 ELSE n + i)
  ELSE (IF i > n THEN n ELSE i)

slice(s, start, end) ==
  LET from == sliceIndex(Len(s), start)
      to == sliceIndex(Len(s), end)
  IN IF from >= to THEN <<>> ELSE SubSeq(s, from + 1, to)

\* Array.prototype.join
RECURSIVE join(_, _)
join(a, sep) ==
  IF a = <<>> THEN <<>>
  ELSE IF Len(a) = 1 THEN <<a[1]>>
  ELSE <<a[1], sep>> \o join(Tail(a), sep)

----------------------------------------------------------------------------
(* Errors.  A message is a string; its leading word is kept as an element   *)
(* of its own.                                                              *)

NoError == [kind |-> "none", msg |-> <<>>]
TypeError(msg) == [kind |-> "TypeError", msg |-> msg]
ReferenceError(msg) == [kind |-> "ReferenceError", msg |-> msg]

requiredString(param) == TypeError(<<param, " parameter is required and must be a string">>)

----------------------------------------------------------------------------
(* path.normalize and path.relative (POSIX), on paths whose elements are     *)
(* "/", "." , ".." and file or directory names.                             *)

RECURSIVE splitPath(_, _)
splitPath(p, cur) ==
  IF p = <<>> THEN <<cur>>
  ELSE IF Head(p) = "/" THEN <<cur>> \o splitPath(Tail(p), <<>>)
  ELSE splitPath(Tail(p), Append(cur, Head(p)))

RECURSIVE normalizeSegments(_, _, _)
normalizeSegments(segs, out, absolute) ==
  IF segs = <<>> THEN out
  ELSE LET g == Head(segs)
       IN IF g = <<>> \/ g = <<".">> THEN normalizeSegments(Tail(segs), out, absolute)
          ELSE IF g = <<"..">>
            THEN IF out # <<>> /\ out[Len(out)] # <<"..">>
                   THEN normalizeSegments(Tail(segs), SubSeq(out, 1, Len(out) - 1), absolute)
                 ELSE IF absolute THEN normalizeSegments(Tail(segs), out, absolute)
                 ELSE normalizeSegments(Tail(segs), Append(out, g), absolute)
          ELSE normalizeSegments(Tail(segs), Append(out, g), absolute)

RECURSIVE joinSegments(_)
joinSegments(segs) ==
  IF segs = <<>> THEN <<>>
  ELSE IF Len(segs) = 1 THEN segs[1]
  ELSE segs[1] \o <<"/">> \o joinSegments(Tail(segs))

normalize(p) ==
  IF p = <<>> THEN <<".">>
  ELSE LET absolute == Head(p) = "/"
           trailing == p[Len(p)] = "/"
           body == joinSegments(normalizeSegments(splitPath(p, <<>>), <<>>, absolute))
       IN IF body = <<>> /\ ~absolute THEN (IF trailing THEN <<".", "/">> ELSE <<".">>)
          ELSE (IF absolute THEN <<"/">> ELSE <<>>) \o body
               \o (IF trailing /\ body # <<>> THEN <<"/">> ELSE <<>>)

\* path.join( a, b )
pathJoin(a, b) ==
  IF a = <<>> THEN normalize(b)
  ELSE IF b = <<>> THEN normalize(a)
  ELSE normalize(a \o <<"/">> \o b)

\* process.cwd()
cwd == <<"/", "home">>

\* path.resolve( p ), as the names between its separators
resolveSegments(p) ==
  IF p # <<>> /\ Head(p) = "/"
    THEN normalizeSegments(splitPath(p, <<>>), <<>>, TRUE)
  ELSE normalizeSegments(splitPath(cwd \o <<"/">> \o p, <<>>), <<>>, TRUE)

RECURSIVE commonLength(_, _)
commonLength(a, b) ==
  IF a = <<>> \/ b = <<>> \/ Head(a) # Head(b) THEN 0
  ELSE 1 + commonLength(Tail(a), Tail(b))

\* path.relative( from, to )
relative(from, to) ==
  LET f == resolveSegments(from)
      t == resolveSegments(to)
      k == commonLength(f, t)
  IN joinSegments([i \in 1..(Len(f) - k) |-> <<"..">>] \o SubSeq(t, k + 1, Len(t)))

----------------------------------------------------------------------------
(* WorkflowMetadata *)

NoObject == [filePath |-> Undefined, workflowName |-> Undefined,
             workflowAnnotation |-> Undefined, projectFilePath |-> Undefined,
             arguments |-> <<>>, exists |-> FALSE]

validArgumentDirections == <<"InArgument", "OutArgument", "InOutArgument">>

\* Array.prototype.includes on validArgumentDirections: strict equality of
\* the whole string with one of the three.
includes(a, v) == \E i \in 1..Len(a) : v = <<a[i]>>

\* new WorkflowMetadata( filePath )
constructor(filePath) ==
  IF notAString(filePath)
    THEN [m |-> NoObject, err |-> requiredString("filePath")]
  ELSE [m |-> [filePath |-> Str(normalize(filePath.s)),
               workflowName |-> Undefined,
               workflowAnnotation |-> Undefined,
               projectFilePath |-> Undefined,
               arguments |-> <<>>,
               exists |-> TRUE],
        err |-> NoError]

getFilePath(m) == [ret |-> m.filePath, err |-> NoError]

\* variant: the field is assigned before the parameter is checked
setWorkflowName_assignsFirst(m, workflowName) ==
  IF notAString(workflowName)
    THEN [m |-> [m EXCEPT !.workflowName = workflowName],
          err |-> requiredString("workflowName")]
  ELSE [m |-> [m EXCEPT !.workflowName = workflowName], err |-> NoError]

setWorkflowName(m, workflowName) ==
  IF notAString(workflowName)
    THEN [m |-> m, err |-> requiredString("workflowName")]
  ELSE [m |-> [m EXCEPT !.workflowName = workflowName], err |-> NoError]

getWorkflowName(m) ==
  IF m.workflowName.t = "undefined"
    THEN [ret |-> Undefined,
          err |-> ReferenceError(<<"The workflowName property has not been set.">>)]
  ELSE [ret |-> Str(trim(m.workflowName.s)), err |-> NoError]

\* variant: a value that is not a non-empty string is ignored, not rejected
setWorkflowAnnotation_ignoresInvalid(m, workflowAnnotation) ==
  IF notAString(workflowAnnotation)
    THEN [m |-> m, err |-> NoError]
  ELSE [m |-> [m EXCEPT !.workflowAnnotation = workflowAnnotation], err |-> NoError]

\* variant: only the type of the parameter is checked
setWorkflowAnnotation_acceptsEmpty(m, workflowAnnotation) ==
  IF workflowAnnotation.t # "string"
    THEN [m |-> m, err |-> requiredString("workflowAnnotation")]
  ELSE [m |-> [m EXCEPT !.workflowAnnotation = workflowAnnotation], err |-> NoError]

setWorkflowAnnotation(m, workflowAnnotation) ==
  IF notAString(workflowAnnotation)
    THEN [m |-> m, err |-> requiredString("workflowAnnotation")]
  ELSE [m |-> [m EXCEPT !.workflowAnnotation = workflowAnnotation], err |-> NoError]

getWorkflowAnnotation(m) ==
  IF m.workflowAnnotation.t = "undefined"
    THEN [ret |-> Undefined,
          err |-> ReferenceError(<<"The workflowAnnotation property has not been set.">>)]
  ELSE [ret |-> Str(trim(m.workflowAnnotation.s)), err |-> NoError]

\* Map: entries in insertion order; set() on a key already present replaces
\* its value where it stands.
setProjectFilePath(m, projectPath) ==
  IF notAString(projectPath)
    THEN [m |-> m, err |-> requiredString("workflowAnnotation")]
  ELSE [m |-> [m EXCEPT !.projectFilePath = Str(relative(projectPath.s, getFilePath(m).ret.s))],
        err |-> NoError]

getProjectFilePath(m) ==
  IF m.projectFilePath.t = "undefined"
    THEN [ret |-> Undefined,
          err |-> ReferenceError(<<"The projectFilePath property has not been set.">>)]
  ELSE [ret |-> m.projectFilePath, err |-> NoError]

mapHas(map, k) == \E i \in 1..Len(map) : map[i].key = k

mapGet(map, k) ==
  IF mapHas(map, k)
    THEN (CHOOSE e \in {map[i] : i \in 1..Len(map)} : e.key = k).value
  ELSE Undefined

\* variant: a key that is there keeps its value
mapSet_keepsFirst(map, k, v) ==
  IF mapHas(map, k) THEN map ELSE Append(map, [key |-> k, value |-> v])

mapSet(map, k, v) ==
  IF mapHas(map, k)
    THEN [i \in 1..Len(map) |-> IF map[i].key = k THEN [key |-> k, value |-> v] ELSE map[i]]
  ELSE Append(map, [key |-> k, value |-> v])

\* variant: the five values are stored as passed
argumentRecord_asPassed(name, direction, type, annotation, defaultValue) ==
  [name |-> name.s,
   direction |-> direction.s,
   type |-> type.s,
   annotation |-> annotation.s,
   defaultValue |-> defaultValue.s]

argumentRecord(name, direction, type, annotation, defaultValue) ==
  [name |-> trim(name.s),
   direction |-> trim(direction.s),
   type |-> trim(type.s),
   annotation |-> replaceLineBreaks(trim(annotation.s)),
   defaultValue |-> replace(replace(trim(defaultValue.s), "[", <<>>), "]", <<>>)]

\* variant: the default value is checked before the annotation
addArgument_defaultValueFirst(m, name, direction, type, annotation, defaultValue) ==
  IF notAString(name) THEN [m |-> m, err |-> requiredString("name")]
  ELSE IF notAString(direction) THEN [m |-> m, err |-> requiredString("direction")]
  ELSE IF ~includes(validArgumentDirections, direction.s)
    THEN [m |-> m,
          err |-> TypeError(<<"direction", " parameter must be one of ">>
                            \o join(validArgumentDirections, "|"))]
  ELSE IF notAString(type) THEN [m |-> m, err |-> requiredString("type")]
  ELSE IF defaultValue.t # "string" THEN [m |-> m, err |-> requiredString("defaultValue")]
  ELSE IF annotation.t # "string" THEN [m |-> m, err |-> requiredString("annotation")]
  ELSE [m |-> [m EXCEPT !.arguments =
                 mapSet(m.arguments, name.s,
                        argumentRecord(name, direction, type, annotation, defaultValue))],
        err |-> NoError]

\* variant: the entry is written once the name and the direction are accepted,
\* before the type, the annotation and the default value are checked
addArgument_writesEarly(m, name, direction, type, annotation, defaultValue) ==
  LET written == [m EXCEPT !.arguments =
                    mapSet(m.arguments, name.s,
                           [name |-> trim(name.s), direction |-> trim(direction.s),
                            type |-> <<>>, annotation |-> <<>>, defaultValue |-> <<>>])]
  IN IF notAString(name) THEN [m |-> m, err |-> requiredString("name")]
     ELSE IF notAString(direction) THEN [m |-> m, err |-> requiredString("direction")]
     ELSE IF ~includes(validArgumentDirections, direction.s)
       THEN [m |-> m,
             err |-> TypeError(<<"direction", " parameter must be one of ">>
                               \o join(validArgumentDirections, "|"))]
     ELSE IF notAString(type) THEN [m |-> written, err |-> requiredString("type")]
     ELSE IF annotation.t # "string"
       THEN [m |-> written, err |-> requiredString("annotation")]
     ELSE IF defaultValue.t # "string"
       THEN [m |-> written, err |-> requiredString("defaultValue")]
     ELSE [m |-> [m EXCEPT !.arguments =
                    mapSet(m.arguments, name.s,
                           argumentRecord(name, direction, type, annotation, defaultValue))],
           err |-> NoError]

\* variant: the direction is not compared with validArgumentDirections
addArgument_anyDirection(m, name, direction, type, annotation, defaultValue) ==
  IF notAString(name) THEN [m |-> m, err |-> requiredString("name")]
  ELSE IF notAString(direction) THEN [m |-> m, err |-> requiredString("direction")]
  ELSE IF notAString(type) THEN [m |-> m, err |-> requiredString("type")]
  ELSE IF annotation.t # "string" THEN [m |-> m, err |-> requiredString("annotation")]
  ELSE IF defaultValue.t # "string" THEN [m |-> m, err |-> requiredString("defaultValue")]
  ELSE [m |-> [m EXCEPT !.arguments =
                 mapSet(m.arguments, name.s,
                        argumentRecord(name, direction, type, annotation, defaultValue))],
        err |-> NoError]

addArgument(m, name, direction, type, annotation, defaultValue) ==
  IF notAString(name) THEN [m |-> m, err |-> requiredString("name")]
  ELSE IF notAString(direction) THEN [m |-> m, err |-> requiredString("direction")]
  ELSE IF ~includes(validArgumentDirections, direction.s)
    THEN [m |-> m,
          err |-> TypeError(<<"direction", " parameter must be one of ">>
                            \o join(validArgumentDirections, "|"))]
  ELSE IF notAString(type) THEN [m |-> m, err |-> requiredString("type")]
  ELSE IF annotation.t # "string" THEN [m |-> m, err |-> requiredString("annotation")]
  ELSE IF defaultValue.t # "string" THEN [m |-> m, err |-> requiredString("defaultValue")]
  ELSE [m |-> [m EXCEPT !.arguments =
                 mapSet(m.arguments, name.s,
                        argumentRecord(name, direction, type, annotation, defaultValue))],
        err |-> NoError]

getArguments(m) == m.arguments

----------------------------------------------------------------------------
(* XamlProcessor.parseArgumentTypeAttribute *)

\* variant: the data type is taken from the "(" on, namespace prefix included
parseArgumentTypeAttribute_keepsPrefix(argumentType) ==
  IF notAString(argumentType)
    THEN [ret |-> <<>>, err |-> requiredString("argumentType")]
  ELSE LET direction == slice(argumentType.s, 0, indexOf(argumentType.s, "("))
           dataType == slice(argumentType.s, indexOf(argumentType.s, "(") + 1,
                             indexOf(argumentType.s, ")"))
       IN [ret |-> <<direction, dataType>>, err |-> NoError]

parseArgumentTypeAttribute(argumentType) ==
  IF notAString(argumentType)
    THEN [ret |-> <<>>, err |-> requiredString("argumentType")]
  ELSE LET direction == slice(argumentType.s, 0, indexOf(argumentType.s, "("))
           dataType == slice(argumentType.s, indexOf(argumentType.s, ":") + 1,
                             indexOf(argumentType.s, ")"))
       IN [ret |-> <<direction, dataType>>, err |-> NoError]

NotParsed == [ret |-> <<>>, err |-> NoError, done |-> FALSE]

----------------------------------------------------------------------------
(* Documents.  A parsed document is its outermost element (tag and           *)
(* attributes), the elements directly under it that are not x:Members, and  *)
(* the x:Property elements under its x:Members, all in document order.  An   *)
(* element's attributes are a set of name/value pairs with distinct names.  *)

element(tag, attrs) == [tag |-> tag, attrs |-> attrs]
attribute(name, value) == [name |-> name, value |-> value]

\* Element.hasAttribute and Element.getAttribute of xmldom; getAttribute
\* gives "" for an attribute that is not there.
hasAttribute(e, name) == \E a \in e.attrs : a.name = name

getAttribute(e, name) ==
  IF hasAttribute(e, name)
    THEN (CHOOSE a \in e.attrs : a.name = name).value
  ELSE <<>>

NoTree == [parsed |-> FALSE, root |-> element("", {}), children |-> <<>>, properties |-> <<>>]

\* `!xamlDoc || typeof( xamlDoc ) !== "object"`
notADocument(xamlDoc) == ~xamlDoc.parsed

xamlDocError ==
  TypeError(<<"xamlDoc", " parameter is required and must be an instance of DOMParser object">>)

\* reading a property of undefined
undefinedError(property) ==
  TypeError(<<"Cannot read property '", property, "' of undefined">>)

selectTag(elements, tag) == SelectSeq(elements, LAMBDA e : e.tag = tag)

\* this.xpath( "/xaml:Activity", xamlDoc ) and the paths below it
xpathActivity(xamlDoc) ==
  IF xamlDoc.root.tag = "Activity" THEN <<xamlDoc.root>> ELSE <<>>

xpathActivityChild(xamlDoc, tag) ==
  IF xamlDoc.root.tag = "Activity" THEN selectTag(xamlDoc.children, tag) ELSE <<>>

xpathProperties(xamlDoc) ==
  IF xamlDoc.root.tag = "Activity" THEN xamlDoc.properties ELSE <<>>

AnnotationText == <<"sap2010:Annotation.AnnotationText">>

\* variant: with neither a Flowchart nor a Sequence, the outermost element
\* itself is taken
workflowElements_fallsBackToRoot(xamlDoc) ==
  IF Len(xpathActivityChild(xamlDoc, "Flowchart")) = 0
    THEN IF Len(xpathActivityChild(xamlDoc, "Sequence")) = 0
           THEN <<xamlDoc.root>>
         ELSE xpathActivityChild(xamlDoc, "Sequence")
  ELSE xpathActivityChild(xamlDoc, "Flowchart")

\* variant: only a Flowchart is looked for
workflowElements_flowchartOnly(xamlDoc) ==
  xpathActivityChild(xamlDoc, "Flowchart")

\* the element both getWorkflowName and getWorkflowAnnotation look at
workflowElements(xamlDoc) ==
  IF Len(xpathActivityChild(xamlDoc, "Flowchart")) = 0
    THEN xpathActivityChild(xamlDoc, "Sequence")
  ELSE xpathActivityChild(xamlDoc, "Flowchart")

XamlProcessor_getWorkflowName(xamlDoc) ==
  IF notADocument(xamlDoc) THEN [ret |-> <<>>, err |-> xamlDocError]
  ELSE IF workflowElements(xamlDoc) = <<>>
    THEN [ret |-> <<>>, err |-> undefinedError("getAttribute")]
  ELSE [ret |-> getAttribute(workflowElements(xamlDoc)[1], <<"DisplayName">>),
        err |-> NoError]

XamlProcessor_getWorkflowAnnotation(xamlDoc) ==
  IF notADocument(xamlDoc) THEN [ret |-> <<>>, err |-> xamlDocError]
  ELSE IF workflowElements(xamlDoc) = <<>>
    THEN [ret |-> <<>>, err |-> undefinedError("hasAttribute")]
  ELSE IF hasAttribute(workflowElements(xamlDoc)[1], AnnotationText)
    THEN [ret |-> getAttribute(workflowElements(xamlDoc)[1], AnnotationText),
          err |-> NoError]
  ELSE [ret |-> <<>>, err |-> NoError]

getClassName(xamlDoc) ==
  IF notADocument(xamlDoc) THEN [ret |-> <<>>, err |-> xamlDocError]
  ELSE IF xpathActivity(xamlDoc) = <<>>
    THEN [ret |-> <<>>, err |-> undefinedError("getAttribute")]
  ELSE [ret |-> getAttribute(xpathActivity(xamlDoc)[1], <<"x:Class">>), err |-> NoError]

\* variant: the attribute name leaves the class name out
defaultValueAttribute_withoutClass(className, argumentName) ==
  <<"this:">> \o argumentName

\* util.format( "this:%s.%s", className, argumentName )
defaultValueAttribute(className, argumentName) ==
  <<"this:">> \o className \o <<".">> \o argumentName

\* variant: the argument name is not checked
getArgumentDefaultValue_anyName(xamlDoc, argumentName) ==
  IF notADocument(xamlDoc) THEN [ret |-> <<>>, err |-> xamlDocError]
  ELSE IF getClassName(xamlDoc).err # NoError
    THEN [ret |-> <<>>, err |-> getClassName(xamlDoc).err]
  ELSE LET attributeName == defaultValueAttribute(getClassName(xamlDoc).ret, argumentName.s)
           activityElement == xpathActivity(xamlDoc)[1]
       IN IF hasAttribute(activityElement, attributeName)
            THEN [ret |-> getAttribute(activityElement, attributeName), err |-> NoError]
          ELSE [ret |-> <<>>, err |-> NoError]

getArgumentDefaultValue(xamlDoc, argumentName) ==
  IF notADocument(xamlDoc) THEN [ret |-> <<>>, err |-> xamlDocError]
  ELSE IF notAString(argumentName) THEN [ret |-> <<>>, err |-> requiredString("argumentName")]
  ELSE IF getClassName(xamlDoc).err # NoError
    THEN [ret |-> <<>>, err |-> getClassName(xamlDoc).err]
  ELSE LET attributeName == defaultValueAttribute(getClassName(xamlDoc).ret, argumentName.s)
           activityElement == xpathActivity(xamlDoc)[1]
       IN IF hasAttribute(activityElement, attributeName)
            THEN [ret |-> getAttribute(activityElement, attributeName), err |-> NoError]
          ELSE [ret |-> <<>>, err |-> NoError]

\* the body of the forEach callback of getWorkflowArguments, for one x:Property
argumentMeta(xamlDoc, argument) ==
  LET argumentName == getAttribute(argument, <<"Name">>)
      typeAttribute == getAttribute(argument, <<"Type">>)
      argumentTypeInfo == parseArgumentTypeAttribute(Str(typeAttribute))
      argumentAnnotation ==
        IF hasAttribute(argument, AnnotationText)
          THEN getAttribute(argument, AnnotationText)
        ELSE <<>>
      defaultValue == getArgumentDefaultValue(xamlDoc, Str(argumentName))
  IN IF argumentTypeInfo.err # NoError THEN [ret |-> <<>>, err |-> argumentTypeInfo.err]
     ELSE IF defaultValue.err # NoError THEN [ret |-> <<>>, err |-> defaultValue.err]
     ELSE [ret |-> <<[name |-> argumentName,
                      direction |-> argumentTypeInfo.ret[1],
                      type |-> argumentTypeInfo.ret[2],
                      annotation |-> argumentAnnotation,
                      defaultValue |-> defaultValue.ret]>>,
           err |-> NoError]

\* variant: each record is put in front of the ones before it
RECURSIVE forEachProperty_latestFirst(_, _, _)
forEachProperty_latestFirst(xamlDoc, elements, xamlArguments) ==
  IF elements = <<>> THEN [ret |-> xamlArguments, err |-> NoError]
  ELSE LET r == argumentMeta(xamlDoc, Head(elements))
       IN IF r.err # NoError THEN [ret |-> <<>>, err |-> r.err]
          ELSE forEachProperty_latestFirst(xamlDoc, Tail(elements), r.ret \o xamlArguments)

RECURSIVE forEachProperty(_, _, _)
forEachProperty(xamlDoc, elements, xamlArguments) ==
  IF elements = <<>> THEN [ret |-> xamlArguments, err |-> NoError]
  ELSE LET r == argumentMeta(xamlDoc, Head(elements))
       IN IF r.err # NoError THEN [ret |-> <<>>, err |-> r.err]
          ELSE forEachProperty(xamlDoc, Tail(elements), xamlArguments \o r.ret)

getWorkflowArguments(xamlDoc) ==
  IF notADocument(xamlDoc) THEN [ret |-> <<>>, err |-> xamlDocError]
  ELSE forEachProperty(xamlDoc, xpathProperties(xamlDoc), <<>>)

----------------------------------------------------------------------------
(* OutputMarkdown (the revision with the emptyOutput flag).  What is at the  *)
(* output path is nothing, a file, or a directory with a set of files; a    *)
(* file name is a string without "/".                                        *)

NoDisk == [kind |-> "absent", files |-> {}]
NoOutput == [exists |-> FALSE, outputPath |-> Undefined]
NoProject == [projectPath |-> <<>>, entries |-> <<>>, privateWorkflows |-> Undefined]

False == [t |-> "boolean", s |-> <<>>]
True == [t |-> "boolean", s |-> <<"true">>]

\* `emptyOutput = false` in the parameter list, and the value as a condition
emptyOutputFlag(v) == IF v = Undefined THEN False ELSE v
truthy(v) == v.t = "object" \/ (v.t \in {"string", "boolean"} /\ v.s # <<>>)

Error(msg) == [kind |-> "Error", msg |-> msg]

\* util.format( "The output path '%s' ...", outputPath )
outputPathError(outputPath, what) == Error(<<"The output path '">> \o outputPath \o <<what>>)

\* variant: every file of the directory is counted
globMarkdown_everyFile(files) == files

\* glob.sync( path.join( outputPath, "*.md" ) ): the files of the directory
\* whose name ends in ".md" and does not begin with a dot
globMarkdown(files) ==
  {f \in files : Len(f) >= 2 /\ f[Len(f)] = ".md" /\ f[1] \notin {".", ".md", ".xaml"}}

OutputMarkdown_constructor(d, outputPath, emptyOutput) ==
  IF notAString(outputPath)
    THEN [o |-> NoOutput, disk |-> d, err |-> requiredString("outputPath")]
  ELSE IF d.kind = "absent"
    THEN [o |-> NoOutput, disk |-> d, err |-> outputPathError(outputPath.s, "' does not exist")]
  ELSE IF d.kind # "directory"
    THEN [o |-> NoOutput, disk |-> d,
          err |-> outputPathError(outputPath.s, "' is not a directory")]
  ELSE LET fileList == globMarkdown(d.files)
       IN IF fileList # {} /\ ~truthy(emptyOutputFlag(emptyOutput))
            THEN [o |-> NoOutput, disk |-> d,
                  err |-> outputPathError(outputPath.s, "' is not an empty directory")]
          ELSE [o |-> [exists |-> TRUE, outputPath |-> outputPath],
                disk |-> IF fileList # {} /\ truthy(emptyOutputFlag(emptyOutput))
                           THEN [d EXCEPT !.files = @ \ fileList]
                         ELSE d,
                err |-> NoError]

\* s.split( path.sep ).join( "-" )
splitJoin(s) == [i \in 1..Len(s) |-> IF s[i] = "/" THEN "-" ELSE s[i]]

\* lines 73-84: the path of the file to write
outputFilePath(o, m) ==
  IF getProjectFilePath(m).err = NoError
    THEN [ret |-> pathJoin(o.outputPath.s,
                           replace(splitJoin(getProjectFilePath(m).ret.s), ".xaml", <<".md">>)),
          err |-> NoError]
  ELSE IF getWorkflowName(m).err # NoError
    THEN [ret |-> <<>>, err |-> getWorkflowName(m).err]
  ELSE [ret |-> pathJoin(o.outputPath.s, getWorkflowName(m).ret.s \o <<".md">>),
        err |-> NoError]

\* fs.writeFileSync( file, ... ) where the output directory has no
\* directories in it: the file is created or replaced when it is directly in
\* the output directory
writeFileSync(o, d, file) ==
  LET dir == splitPath(normalize(o.outputPath.s), <<>>)
      f == splitPath(file, <<>>)
  IN IF Len(f) = Len(dir) + 1 /\ SubSeq(f, 1, Len(dir)) = dir
       THEN [disk |-> [d EXCEPT !.files = @ \cup {f[Len(f)]}], err |-> NoError]
     ELSE [disk |-> d, err |-> Error(<<"ENOENT">>)]

writeFile(o, d, m) ==
  IF ~m.exists
    THEN [disk |-> d,
          err |-> TypeError(<<"metadata",
                              " parameter is required and must be a WorkflowMetadata object">>)]
  ELSE IF outputFilePath(o, m).err # NoError THEN [disk |-> d, err |-> outputFilePath(o, m).err]
  ELSE IF getWorkflowName(m).err # NoError THEN [disk |-> d, err |-> getWorkflowName(m).err]
  ELSE IF getWorkflowAnnotation(m).err # NoError
    THEN [disk |-> d, err |-> getWorkflowAnnotation(m).err]
  ELSE writeFileSync(o, d, outputFilePath(o, m).ret)

----------------------------------------------------------------------------
(* UiPathProject.  The project directory is a sequence of entries, in the    *)
(* order readdirSync lists them; an entry has a name, is a file or a         *)
(* directory, and a directory has entries of its own.                       *)

file(name) == [name |-> name, kind |-> "file", entries |-> <<>>]
directory(name, entries) == [name |-> name, kind |-> "directory", entries |-> entries]

Array(s) == [t |-> "array", s |-> s]

\* the files below a directory, each as its path relative to the directory
RECURSIVE filesBelow(_, _)
filesBelow(entries, prefix) ==
  UNION {IF entries[i].kind = "file" THEN {prefix \o entries[i].name}
         ELSE filesBelow(entries[i].entries, prefix \o entries[i].name \o <<"/">>) :
           i \in 1..Len(entries)}

\* libraryOptions.privateWorkflows when it is there and is an array
getPrivateWorkflows(pr) ==
  IF pr.privateWorkflows.t = "array" THEN pr.privateWorkflows.s ELSE <<>>

\* path.resolve( this.projectPath )
getProjectPath(pr) == <<"/">> \o joinSegments(resolveSegments(pr.projectPath))

\* path.basename( p ) and path.extname( p ) === ".xaml"
basename(p) ==
  LET segs == splitPath(p, <<>>) IN segs[Len(segs)]

isXaml(p) == Len(basename(p)) >= 2 /\ basename(p)[Len(basename(p))] = ".xaml"

startsWith(s, c) == s # <<>> /\ s[1] = c

endsWithString(s, e) == Len(e) <= Len(s) /\ SubSeq(s, Len(s) - Len(e) + 1, Len(s)) = e

\* lines 159-172: tmp is a stack of paths, each with the entry it names
RECURSIVE walk(_, _, _)
walk(pr, tmp, fileList) ==
  IF tmp = <<>> THEN fileList
  ELSE LET top == tmp[Len(tmp)]
           rest == SubSeq(tmp, 1, Len(tmp) - 1)
       IN IF top.entry.kind = "directory"
            THEN walk(pr,
                      rest \o [i \in 1..Len(top.entry.entries) |->
                                 [path |-> pathJoin(top.path, top.entry.entries[i].name),
                                  entry |-> top.entry.entries[i]]],
                      fileList)
          ELSE IF top.entry.kind = "file"
            THEN walk(pr, rest, Append(fileList, pathJoin(pr.projectPath, top.path)))
          ELSE walk(pr, rest, fileList)

\* lines 148-173
listFiles(pr, recursive) ==
  IF recursive = False
    THEN [i \in 1..Len(pr.entries) |-> pathJoin(getProjectPath(pr), pr.entries[i].name)]
  ELSE walk(pr, <<[path |-> pr.projectPath, entry |-> directory(<<>>, pr.entries)]>>, <<>>)

\* lines 176-178
xamlOnly(fileList) ==
  SelectSeq(fileList, LAMBDA e : isXaml(e) /\ ~startsWith(basename(e), "~"))

\* lines 184-188
RECURSIVE withoutPrivate(_, _)
withoutPrivate(fileList, privateWorkflows) ==
  IF privateWorkflows = <<>> THEN fileList
  ELSE withoutPrivate(SelectSeq(fileList,
                                LAMBDA xamlFile : ~endsWithString(xamlFile, Head(privateWorkflows))),
                      Tail(privateWorkflows))

\* `recursive = false, publicOnly = false` in the parameter list
defaultFalse(v) == IF v = Undefined THEN False ELSE v

getXamlFiles(pr, recursive, publicOnly) ==
  IF defaultFalse(publicOnly) = True
    THEN withoutPrivate(xamlOnly(listFiles(pr, defaultFalse(recursive))),
                        getPrivateWorkflows(pr))
  ELSE xamlOnly(listFiles(pr, defaultFalse(recursive)))

----------------------------------------------------------------------------
(* The object under test: any sequence of calls on one WorkflowMetadata.    *)
(* hist counts, per field, the setter calls that returned normally (2 means *)
(* two or more) and keeps the value the last of them was given.             *)

PathInputs == {Undefined, Obj, Str(<<>>), Str(<<".", "/", "test", "/", "uno.xaml">>)}

FieldInputs == {Undefined, Obj, Str(<<>>), Str(<<" ", "uno">>), Str(<<"dos">>)}

NameInputs == {Str(<<>>), Str(<<"Ichi">>), Str(<<" ">>)}

DirectionInputs ==
  {Undefined, Str(<<"InArgument">>), Str(<<"OutArgument">>),
   Str(<<"InOutArgument">>), Str(<<"both">>)}

\* type, annotation, defaultValue
RestInputs ==
  {<<Str(<<"String">>), Str(<<>>), Str(<<>>)>>,
   <<Str(<<" ">>), Str(<<" ", "a", "\n", "\n", "b">>), Str(<<"[", "v", "]">>)>>,
   <<Str(<<>>), Undefined, Undefined>>}

NoCall == [op |-> "none", args |-> <<>>, err |-> NoError, ret |-> Undefined]

called(op, args, err, ret) == [op |-> op, args |-> args, err |-> err, ret |-> ret]

bump(n) == IF n >= 2 THEN 2 ELSE n + 1

NoHistory == [nameSets |-> 0, nameArg |-> Undefined,
              annotationSets |-> 0, annotationArg |-> Undefined]

others == <<token, parsed, doc, pc, xmeta, xargs, xerr, probe, world>>

Construct(p) ==
  /\ ~metadata.exists
  /\ LET r == constructor(p)
     IN /\ metadata' = r.m
        /\ last' = called("constructor", <<p>>, r.err, Undefined)
  /\ UNCHANGED <<hist, others>>

GetFilePath ==
  /\ metadata.exists
  /\ last' = called("getFilePath", <<>>, NoError, getFilePath(metadata).ret)
  /\ UNCHANGED <<metadata, hist, others>>

SetWorkflowName(v) ==
  /\ metadata.exists
  /\ LET r == setWorkflowName(metadata, v)
     IN /\ metadata' = r.m
        /\ last' = called("setWorkflowName", <<v>>, r.err, Undefined)
        /\ hist' = IF r.err = NoError
                     THEN [hist EXCEPT !.nameSets = bump(@), !.nameArg = v]
                   ELSE hist
  /\ UNCHANGED others

GetWorkflowName ==
  /\ metadata.exists
  /\ LET r == getWorkflowName(metadata)
     IN last' = called("getWorkflowName", <<>>, r.err, r.ret)
  /\ UNCHANGED <<metadata, hist, others>>

SetWorkflowAnnotation(v) ==
  /\ metadata.exists
  /\ LET r == setWorkflowAnnotation(metadata, v)
     IN /\ metadata' = r.m
        /\ last' = called("setWorkflowAnnotation", <<v>>, r.err, Undefined)
        /\ hist' = IF r.err = NoError
                     THEN [hist EXCEPT !.annotationSets = bump(@), !.annotationArg = v]
                   ELSE hist
  /\ UNCHANGED others

GetWorkflowAnnotation ==
  /\ metadata.exists
  /\ LET r == getWorkflowAnnotation(metadata)
     IN last' = called("getWorkflowAnnotation", <<>>, r.err, r.ret)
  /\ UNCHANGED <<metadata, hist, others>>

AddArgument(name, direction, rest) ==
  /\ metadata.exists
  /\ Len(metadata.arguments) < MaxArgs \/ mapHas(metadata.arguments, name.s)
  /\ LET r == addArgument(metadata, name, direction, rest[1], rest[2], rest[3])
     IN /\ metadata' = r.m
        /\ last' = called("addArgument", <<name, direction, rest[1], rest[2], rest[3]>>,
                          r.err, Undefined)
  /\ UNCHANGED <<hist, others>>

NoDocument == [filePath |-> Undefined, readable |-> FALSE, tree |-> NoTree]
NotThrown == [at |-> "", err |-> NoError]
NoProbe == [op |-> "none", args |-> <<>>, ret |-> <<>>, err |-> NoError]

NoCLI ==
  [pc |-> "none", program |-> Undefined, workflowFiles |-> <<>>, workflowMeta |-> <<>>,
   written |-> 0, failed |-> "", found |-> NoDisk]

Calm ==
  /\ disk = NoDisk /\ output = NoOutput /\ project = NoProject
  /\ heap = <<>> /\ models = <<>> /\ cli = NoCLI

Idle ==
  /\ token = Undefined /\ parsed = NotParsed /\ doc = NoDocument
  /\ pc = "idle" /\ xmeta = NoObject /\ xargs = <<>> /\ xerr = NotThrown
  /\ probe = NoProbe
  /\ Calm

Init ==
  /\ metadata = NoObject
  /\ last = NoCall
  /\ hist = NoHistory
  /\ Idle

Next ==
  \/ \E p \in PathInputs : Construct(p)
  \/ GetFilePath
  \/ \E v \in FieldInputs : SetWorkflowName(v)
  \/ GetWorkflowName
  \/ \E v \in FieldInputs : SetWorkflowAnnotation(v)
  \/ GetWorkflowAnnotation
  \/ \E n \in NameInputs, d \in DirectionInputs, r \in RestInputs : AddArgument(n, d, r)

Spec == Init /\ [][Next]_vars

----------------------------------------------------------------------------
(* The parser on its own: one call on a token drawn from the tokens of the  *)
(* form D(p:T), every string of at most MaxTokenLen delimiters and letters,  *)
(* and the values that are not strings.                                     *)

RECURSIVE Strings(_, _)
Strings(alphabet, n) ==
  IF n = 0 THEN {<<>>}
  ELSE LET shorter == Strings(alphabet, n - 1)
       IN shorter \cup {Append(s, c) : s \in shorter, c \in alphabet}

DirectionParts == {<<>>, <<"InArgument">>, <<"InOutArgument">>, <<"both">>}
PrefixParts == {<<>>, <<"x">>, <<"sd">>, <<"s", "cg">>}
TypeParts == {<<>>, <<"String">>, <<"DataTable">>, <<"List", "(", "x", ":", "String">>}

typeToken(D, p, T) == D \o <<"(">> \o p \o <<":">> \o T \o <<")">>

TokenInputs ==
  {Undefined, Obj}
    \cup {Str(s) : s \in Strings({"(", ":", ")", "a"}, MaxTokenLen)}
    \cup {Str(typeToken(D, p, T)) : D \in DirectionParts, p \in PrefixParts, T \in TypeParts}

ParseArgumentTypeAttribute ==
  /\ ~parsed.done
  /\ LET r == parseArgumentTypeAttribute(token)
     IN parsed' = [ret |-> r.ret, err |-> r.err, done |-> TRUE]
  /\ UNCHANGED <<metadata, last, hist, token, doc, pc, xmeta, xargs, xerr, probe, world>>

InitParse ==
  /\ metadata = NoObject /\ last = NoCall /\ hist = NoHistory
  /\ token \in TokenInputs
  /\ parsed = NotParsed
  /\ doc = NoDocument /\ pc = "idle" /\ xmeta = NoObject /\ xargs = <<>> /\ xerr = NotThrown
  /\ probe = NoProbe
  /\ Calm

NextParse == ParseArgumentTypeAttribute

SpecParse == InitParse /\ [][NextParse]_vars

----------------------------------------------------------------------------
(* The extractor: one document, and either one getMetadata call, followed   *)
(* statement by statement, or one direct call of an extraction function on  *)
(* the parsed document.                                                     *)

DisplayName(v) == attribute(<<"DisplayName">>, v)
Annotation(v) == attribute(AnnotationText, v)

WorkflowBodies ==
  {element(tag, names \cup annotations) :
     tag \in {"Flowchart", "Sequence"},
     names \in {{}, {DisplayName(<<"uno">>)}},
     annotations \in {{}, {Annotation(<<"Hello">>)}}}

ChildrenInputs ==
  {<<>>} \cup {<<e>> : e \in WorkflowBodies}
    \cup {<<element("Sequence", {DisplayName(<<"dos">>), Annotation(<<"Hello">>)}),
            element("Flowchart", {DisplayName(<<"uno">>)})>>}

InString == <<"InArgument", "(", "x", ":", "String", ")">>

PropertyInputs ==
  {element("x:Property", names \cup types) :
     names \in {{}, {attribute(<<"Name">>, <<"Ichi">>)}, {attribute(<<"Name">>, <<"Ni">>)}},
     types \in {{}, {attribute(<<"Type">>, InString)},
                {attribute(<<"Type">>, <<"both", "(", "x", ":", "String", ")">>)},
                {attribute(<<"Type">>, <<"InArgument">>)}}}
    \cup {element("x:Property",
                  {attribute(<<"Name">>, <<"Ichi">>), attribute(<<"Type">>, InString),
                   Annotation(<<"First">>)})}

RECURSIVE Lists(_, _)
Lists(items, n) ==
  IF n = 0 THEN {<<>>}
  ELSE LET shorter == Lists(items, n - 1)
       IN shorter \cup {Append(l, x) : l \in shorter, x \in items}

ActivityAttributeInputs ==
  {{},
   {attribute(<<"x:Class">>, <<"uno">>)},
   {attribute(<<"x:Class">>, <<"uno">>),
    attribute(<<"this:", "uno", ".", "Ichi">>, <<"A default">>)},
   {attribute(<<"x:Class">>, <<"uno">>),
    attribute(<<"this:", "uno", ".", "Ichi">>, <<"[", "v", "]">>)},
   {attribute(<<"x:Class">>, <<"uno">>),
    attribute(<<"this:", "uno", ".", "Ichi">>, <<"[", "a", "]", "b", "]">>)}}

tree(root, children, properties) ==
  [parsed |-> TRUE, root |-> root, children |-> children, properties |-> properties]

document(filePath, readable, t) == [filePath |-> filePath, readable |-> readable, tree |-> t]

unoPath == Str(<<".", "/", "test", "/", "uno.xaml">>)

unoTree ==
  tree(element("Activity", {attribute(<<"x:Class">>, <<"uno">>)}),
       <<element("Sequence", {DisplayName(<<"uno">>), Annotation(<<"Hello">>)})>>, <<>>)

DocumentInputs ==
  {document(unoPath, TRUE, tree(element("Activity", attrs), children, properties)) :
     attrs \in ActivityAttributeInputs, children \in ChildrenInputs,
     properties \in Lists(PropertyInputs, MaxMembers)}
    \cup {document(unoPath, TRUE, tree(element("Window", {}), unoTree.children, <<>>)),
          document(unoPath, TRUE, NoTree),
          document(unoPath, FALSE, NoTree),
          document(Undefined, TRUE, unoTree),
          document(Obj, TRUE, unoTree),
          document(Str(<<>>), TRUE, unoTree)}

throw(at, err) ==
  /\ pc' = "threw"
  /\ xerr' = [at |-> at, err |-> err]

\* lines 51-63: the parameter check, reading and parsing the file, and
\* `new WorkflowMetadata( filePath )`
GetMetadata_Open ==
  /\ pc = "idle"
  /\ IF notAString(doc.filePath)
       THEN throw("filePath", requiredString("filePath")) /\ UNCHANGED xmeta
     ELSE IF ~doc.readable
       THEN throw("readFileSync", [kind |-> "Error", msg |-> <<"ENOENT">>]) /\ UNCHANGED xmeta
     ELSE IF constructor(doc.filePath).err # NoError
       THEN throw("constructor", constructor(doc.filePath).err) /\ UNCHANGED xmeta
     ELSE /\ xmeta' = constructor(doc.filePath).m
          /\ pc' = "name"
          /\ UNCHANGED xerr
  /\ UNCHANGED <<metadata, last, hist, token, parsed, doc, xargs, probe, world>>

\* variant: the step that writes the name writes the description as well
GetMetadata_Name_withAnnotation ==
  /\ pc = "name"
  /\ LET n == XamlProcessor_getWorkflowName(doc.tree)
         a == XamlProcessor_getWorkflowAnnotation(doc.tree)
         r == setWorkflowName(xmeta, Str(n.ret))
     IN IF n.err # NoError THEN throw("name", n.err) /\ UNCHANGED xmeta
        ELSE IF r.err # NoError THEN throw("name", r.err) /\ UNCHANGED xmeta
        ELSE /\ xmeta' = [r.m EXCEPT !.workflowAnnotation = Str(a.ret)]
             /\ pc' = "annotation" /\ UNCHANGED xerr
  /\ UNCHANGED <<metadata, last, hist, token, parsed, doc, xargs, probe, world>>

\* line 66
GetMetadata_Name ==
  /\ pc = "name"
  /\ LET n == XamlProcessor_getWorkflowName(doc.tree)
         r == setWorkflowName(xmeta, Str(n.ret))
     IN IF n.err # NoError THEN throw("name", n.err) /\ UNCHANGED xmeta
        ELSE IF r.err # NoError THEN throw("name", r.err) /\ UNCHANGED xmeta
        ELSE xmeta' = r.m /\ pc' = "annotation" /\ UNCHANGED xerr
  /\ UNCHANGED <<metadata, last, hist, token, parsed, doc, xargs, probe, world>>

\* line 69
GetMetadata_Annotation ==
  /\ pc = "annotation"
  /\ LET a == XamlProcessor_getWorkflowAnnotation(doc.tree)
         r == setWorkflowAnnotation(xmeta, Str(a.ret))
     IN IF a.err # NoError THEN throw("annotation", a.err) /\ UNCHANGED xmeta
        ELSE IF r.err # NoError THEN throw("annotation", r.err) /\ UNCHANGED xmeta
        ELSE xmeta' = r.m /\ pc' = "arguments" /\ UNCHANGED xerr
  /\ UNCHANGED <<metadata, last, hist, token, parsed, doc, xargs, probe, world>>

\* line 72
GetMetadata_Arguments ==
  /\ pc = "arguments"
  /\ LET w == getWorkflowArguments(doc.tree)
     IN IF w.err # NoError THEN throw("arguments", w.err) /\ UNCHANGED xargs
        ELSE xargs' = w.ret /\ pc' = "forEach" /\ UNCHANGED xerr
  /\ UNCHANGED <<metadata, last, hist, token, parsed, doc, xmeta, probe, world>>

\* lines 74-82, one turn of the loop
GetMetadata_ForEach ==
  /\ pc = "forEach"
  /\ xargs # <<>>
  /\ LET arg == Head(xargs)
         r == addArgument(xmeta, Str(arg.name), Str(arg.direction), Str(arg.type),
                          Str(arg.annotation), Str(arg.defaultValue))
     IN IF r.err # NoError THEN throw("forEach", r.err) /\ UNCHANGED <<xmeta, xargs>>
        ELSE xmeta' = r.m /\ xargs' = Tail(xargs) /\ UNCHANGED <<pc, xerr>>
  /\ UNCHANGED <<metadata, last, hist, token, parsed, doc, probe, world>>

\* line 84
GetMetadata_Return ==
  /\ pc = "forEach"
  /\ xargs = <<>>
  /\ pc' = "returned"
  /\ UNCHANGED <<metadata, last, hist, token, parsed, doc, xmeta, xargs, xerr, probe, world>>

probed(op, args, r) ==
  /\ pc = "idle"
  /\ pc' = "probed"
  /\ probe' = [op |-> op, args |-> args, ret |-> r.ret, err |-> r.err]
  /\ UNCHANGED <<metadata, last, hist, token, parsed, doc, xmeta, xargs, xerr, world>>

Call_getWorkflowName == probed("getWorkflowName", <<>>, XamlProcessor_getWorkflowName(doc.tree))

Call_getWorkflowAnnotation ==
  probed("getWorkflowAnnotation", <<>>, XamlProcessor_getWorkflowAnnotation(doc.tree))

Call_getClassName == probed("getClassName", <<>>, getClassName(doc.tree))

Call_getWorkflowArguments ==
  probed("getWorkflowArguments", <<>>, getWorkflowArguments(doc.tree))

ArgumentNameInputs == {Undefined, Obj, Str(<<>>), Str(<<"Ichi">>), Str(<<"Ni">>)}

Call_getArgumentDefaultValue(argumentName) ==
  probed("getArgumentDefaultValue", <<argumentName>>,
         getArgumentDefaultValue(doc.tree, argumentName))

InitExtract ==
  /\ metadata = NoObject /\ last = NoCall /\ hist = NoHistory
  /\ token = Undefined /\ parsed = NotParsed
  /\ doc \in DocumentInputs
  /\ pc = "idle" /\ xmeta = NoObject /\ xargs = <<>> /\ xerr = NotThrown
  /\ probe = NoProbe
  /\ Calm

NextExtract ==
  \/ GetMetadata_Open
  \/ GetMetadata_Name
  \/ GetMetadata_Annotation
  \/ GetMetadata_Arguments
  \/ GetMetadata_ForEach
  \/ GetMetadata_Return
  \/ Call_getWorkflowName
  \/ Call_getWorkflowAnnotation
  \/ Call_getClassName
  \/ Call_getWorkflowArguments
  \/ \E n \in ArgumentNameInputs : Call_getArgumentDefaultValue(n)

SpecExtract == InitExtract /\ [][NextExtract]_vars

----------------------------------------------------------------------------
(* The parameter checks of addArgument: one call, with any combination of   *)
(* parameters, on an object constructed for the call.                       *)

ValueInputs == {Undefined, Obj, Str(<<>>), Str(<<"InArgument">>)}

NewAddArgument(name, direction, type, annotation, defaultValue) ==
  /\ last = NoCall
  /\ LET r == addArgument(constructor(unoPath).m, name, direction, type,
                          annotation, defaultValue)
     IN /\ metadata' = r.m
        /\ last' = called("addArgument", <<name, direction, type, annotation, defaultValue>>,
                          r.err, Undefined)
  /\ UNCHANGED <<hist, others>>

InitValidate == Init

NextValidate ==
  \E name \in ValueInputs, direction \in ValueInputs \cup {Str(<<"both">>)},
     type \in ValueInputs, annotation \in ValueInputs, defaultValue \in ValueInputs :
    NewAddArgument(name, direction, type, annotation, defaultValue)

SpecValidate == InitValidate /\ [][NextValidate]_vars

----------------------------------------------------------------------------
(* The output directory: what is at the output path to begin with, then     *)
(* `new OutputMarkdown( outputPath, emptyOutput )`, tried until it returns.  *)

FileNameInputs ==
  {<<"markdown", ".md">>, <<"uno", ".md">>, <<".", "gitignore">>, <<"notes", ".txt">>}

DiskInputs ==
  {NoDisk, [kind |-> "file", files |-> {}]}
    \cup {[kind |-> "directory", files |-> F] : F \in SUBSET FileNameInputs}

OutputPathInputs == {Undefined, Obj, Str(<<>>), Str(<<"out">>)}

FlagInputs == {Undefined, False, True}

NewOutputMarkdown(outputPath, emptyOutput) ==
  /\ ~output.exists
  /\ LET r == OutputMarkdown_constructor(disk, outputPath, emptyOutput)
     IN /\ output' = r.o
        /\ disk' = r.disk
        /\ last' = called("OutputMarkdown", <<outputPath, emptyOutput>>, r.err, Undefined)
  /\ UNCHANGED <<metadata, hist, token, parsed, doc, pc, xmeta, xargs, xerr, probe, project,
                 heap, models, cli>>

\* the models passed to writeFile: built by the constructor and the setters
withName(m, v) == IF v = Undefined THEN m ELSE setWorkflowName(m, v).m
withAnnotation(m, v) == IF v = Undefined THEN m ELSE setWorkflowAnnotation(m, v).m
withProjectPath(m, v) == IF v = Undefined THEN m ELSE setProjectFilePath(m, v).m

ProjectPath == Str(<<"/", "proj">>)

MetadataInputs ==
  {NoObject}
    \cup {withProjectPath(withAnnotation(withName(constructor(Str(f)).m, n), a), pp) :
            f \in {<<"/", "proj", "/", "uno", ".xaml">>,
                   <<"/", "proj", "/", "sub-folder", "/", "dos", ".xaml">>},
            n \in {Undefined, Str(<<"uno">>), Str(<<"a", "/", "b">>)},
            a \in {Undefined, Str(<<"Hello">>)},
            pp \in {Undefined, ProjectPath}}

WriteFile(m) ==
  /\ output.exists
  /\ LET r == writeFile(output, disk, m)
     IN /\ disk' = r.disk
        /\ last' = called("writeFile", <<m>>, r.err, Undefined)
  /\ UNCHANGED <<metadata, hist, token, parsed, doc, pc, xmeta, xargs, xerr, probe, output,
                 project, heap, models, cli>>

InitOutput ==
  /\ metadata = NoObject /\ last = NoCall /\ hist = NoHistory
  /\ token = Undefined /\ parsed = NotParsed /\ doc = NoDocument
  /\ pc = "idle" /\ xmeta = NoObject /\ xargs = <<>> /\ xerr = NotThrown
  /\ probe = NoProbe
  /\ disk \in DiskInputs
  /\ output = NoOutput
  /\ project = NoProject
  /\ heap = <<>> /\ models = <<>> /\ cli = NoCLI

NextOutput ==
  \/ \E p \in OutputPathInputs, f \in FlagInputs : NewOutputMarkdown(p, f)
  \/ \E m \in MetadataInputs : WriteFile(m)

SpecOutput == InitOutput /\ [][NextOutput]_vars

----------------------------------------------------------------------------
(* The project directory: a UiPathProject constructed on it, and one        *)
(* getXamlFiles call.                                                       *)

dosXaml == <<"dos", ".xaml">>
tresXaml == <<"tres", ".xaml">>
unoXaml == <<"uno", ".xaml">>

TopFileInputs == <<file(dosXaml), file(<<"readme", ".md">>), file(unoXaml), file(<<"~", "uno", ".xaml">>)>>

SubFolderFileInputs == <<file(dosXaml), file(tresXaml)>>

\* the entries of a sequence that are in a set, in the order of the sequence
chosen(entries, S) == SelectSeq(entries, LAMBDA e : e \in S)

range(q) == {q[i] : i \in 1..Len(q)}

EntriesInputs ==
  {<<file(<<"project", ".json">>)>> \o sub \o chosen(TopFileInputs, T) :
     T \in SUBSET range(TopFileInputs),
     sub \in {<<>>} \cup {<<directory(<<"sub-folder">>, chosen(SubFolderFileInputs, S))>> :
                            S \in SUBSET range(SubFolderFileInputs)}}

PrivateWorkflowsInputs ==
  {Undefined, Obj, Array(<<dosXaml>>),
   Array(<<<<"sub-folder", "/">> \o tresXaml, unoXaml>>)}

ProjectInputs ==
  {[projectPath |-> pp, entries |-> es, privateWorkflows |-> pw] :
     pp \in {<<"/", "proj">>, <<".">>}, es \in EntriesInputs, pw \in PrivateWorkflowsInputs}

Call_getXamlFiles(recursive, publicOnly) ==
  probed("getXamlFiles", <<recursive, publicOnly>>,
         [ret |-> getXamlFiles(project, recursive, publicOnly), err |-> NoError])

InitProject ==
  /\ metadata = NoObject /\ last = NoCall /\ hist = NoHistory
  /\ token = Undefined /\ parsed = NotParsed /\ doc = NoDocument
  /\ pc = "idle" /\ xmeta = NoObject /\ xargs = <<>> /\ xerr = NotThrown
  /\ probe = NoProbe
  /\ disk = NoDisk /\ output = NoOutput
  /\ project \in ProjectInputs
  /\ heap = <<>> /\ models = <<>> /\ cli = NoCLI

NextProject ==
  \E recursive \in FlagInputs, publicOnly \in FlagInputs :
    Call_getXamlFiles(recursive, publicOnly)

SpecProject == InitProject /\ [][NextProject]_vars

----------------------------------------------------------------------------
(* One XamlProcessor used for several getMetadata calls, one after another  *)
(* (the calls are synchronous).  Objects are references here: the arguments *)
(* field of a WorkflowMetadata object holds the place in the heap of the    *)
(* Map its constructor made, and addArgument writes to that Map.  The       *)
(* processor keeps its namespaces and its xpath function and nothing else.  *)

\* variant: every object is given the Map that was made first
newMap_shared(h) ==
  IF h = <<>> THEN [heap |-> <<<<>>>>, ref |-> 1] ELSE [heap |-> h, ref |-> 1]

\* this.arguments = new Map()
newMap(h) == [heap |-> Append(h, <<>>), ref |-> Len(h) + 1]

\* the object as a value: its fields, and the entries of its Map
deref(h, m) == [m EXCEPT !.arguments = h[m.arguments]]

\* the forEach of getMetadata, the Map of `metadata` being h[metadata.arguments]
RECURSIVE forEachArgument(_, _, _)
forEachArgument(h, m, workflowArguments) ==
  IF workflowArguments = <<>> THEN [heap |-> h, err |-> NoError]
  ELSE LET arg == Head(workflowArguments)
           r == addArgument(deref(h, m), Str(arg.name), Str(arg.direction), Str(arg.type),
                            Str(arg.annotation), Str(arg.defaultValue))
       IN IF r.err # NoError THEN [heap |-> h, err |-> r.err]
          ELSE forEachArgument([h EXCEPT ![m.arguments] = getArguments(r.m)], m,
                               Tail(workflowArguments))

\* getMetadata( filePath ), d being the file at filePath
getMetadata(h, d) ==
  LET failed(at, err) == [heap |-> at, ret |-> NoObject, err |-> err]
      c == constructor(d.filePath)
      a == newMap(h)
      name == XamlProcessor_getWorkflowName(d.tree)
      annotation == XamlProcessor_getWorkflowAnnotation(d.tree)
      workflowArguments == getWorkflowArguments(d.tree)
      m0 == [c.m EXCEPT !.arguments = a.ref]
      m1 == setWorkflowName(m0, Str(name.ret))
      m2 == setWorkflowAnnotation(m1.m, Str(annotation.ret))
      added == forEachArgument(a.heap, m2.m, workflowArguments.ret)
  IN IF notAString(d.filePath) THEN failed(h, requiredString("filePath"))
     ELSE IF ~d.readable THEN failed(h, [kind |-> "Error", msg |-> <<"ENOENT">>])
     ELSE IF c.err # NoError THEN failed(h, c.err)
     ELSE IF name.err # NoError THEN failed(a.heap, name.err)
     ELSE IF m1.err # NoError THEN failed(a.heap, m1.err)
     ELSE IF annotation.err # NoError THEN failed(a.heap, annotation.err)
     ELSE IF m2.err # NoError THEN failed(a.heap, m2.err)
     ELSE IF workflowArguments.err # NoError THEN failed(a.heap, workflowArguments.err)
     ELSE IF added.err # NoError THEN failed(added.heap, added.err)
     ELSE [heap |-> added.heap, ret |-> m2.m, err |-> NoError]

property(name, type) ==
  element("x:Property", {attribute(<<"Name">>, name), attribute(<<"Type">>, type)})

IchiProperty == property(<<"Ichi">>, InString)
NiProperty == property(<<"Ni">>, <<"OutArgument", "(", "x", ":", "String", ")">>)

PropertiesInputs ==
  {<<>>, <<IchiProperty>>, <<NiProperty>>, <<IchiProperty, NiProperty>>,
   <<NiProperty, IchiProperty>>,
   <<IchiProperty, property(<<"Ichi">>, <<"OutArgument", "(", "x", ":", "Int32", ")">>)>>,
   <<IchiProperty, property(<<"Ni">>, <<"both", "(", "x", ":", "String", ")">>)>>}

dosPath == Str(<<".", "/", "test", "/", "dos.xaml">>)

ProcessedInputs ==
  {document(unoPath, TRUE, tree(unoTree.root, unoTree.children, properties)) :
     properties \in PropertiesInputs}
    \cup {document(dosPath, TRUE, tree(unoTree.root, unoTree.children, <<NiProperty>>)),
          document(dosPath, FALSE, NoTree),
          document(Undefined, TRUE, unoTree)}

GetMetadata(d) ==
  /\ Len(heap) < MaxCalls
  /\ LET r == getMetadata(heap, d)
     IN /\ heap' = r.heap
        /\ models' = IF r.err = NoError THEN Append(models, [doc |-> d, m |-> r.ret])
                     ELSE models
        /\ last' = called("getMetadata", <<d.filePath>>, r.err, Undefined)
  /\ UNCHANGED <<metadata, hist, token, parsed, doc, pc, xmeta, xargs, xerr, probe,
                 disk, output, project, cli>>

InitProcessor ==
  /\ metadata = NoObject /\ last = NoCall /\ hist = NoHistory
  /\ Idle

NextProcessor == \E d \in ProcessedInputs : GetMetadata(d)

SpecProcessor == InitProcessor /\ [][NextProcessor]_vars

----------------------------------------------------------------------------
(* The command line program, from its options to its last written file.    *)
(* The directory at the input path is the project directory, the output    *)
(* path is outside it, and a workflow file holds the document its name     *)
(* stands for.  An exception nothing catches ends the process.             *)

\* the document in the file with this path relative to the project directory
contentOf(rel) ==
  IF basename(rel) = dosXaml
    THEN tree(unoTree.root,
              <<element("Sequence", {DisplayName(<<"dos">>), Annotation(<<"Hello">>)})>>,
              <<IchiProperty>>)
  ELSE IF basename(rel) = tresXaml THEN tree(unoTree.root, <<>>, <<>>)
  ELSE unoTree

\* fs.readFileSync( filePath ) and the parse, for a path getXamlFiles returned
readWorkflow(pr, filePath) ==
  LET rels == {rel \in filesBelow(pr.entries, <<>>) : pathJoin(pr.projectPath, rel) = filePath}
  IN IF rels = {} THEN document(Str(filePath), FALSE, NoTree)
     ELSE document(Str(filePath), TRUE, contentOf(CHOOSE rel \in rels : TRUE))

\* lines 47-62: path.resolve( process.cwd().toString(), p ) or path.normalize( p )
resolved(p) ==
  IF p # <<>> /\ Head(p) = "/" THEN normalize(p)
  ELSE <<"/">> \o joinSegments(resolveSegments(p))

ProgramInputs ==
  [input : {Undefined, Str(<<"/">>), Str(<<"proj">>)},
   output : {Undefined, Str(<<"out">>)},
   clean : {Undefined, True},
   xamlNames : {Undefined, True}]

ProjectDirectoryInputs ==
  LET projectJson == file(<<"project", ".json">>)
  IN {<<>>,
      <<projectJson>>,
      <<projectJson, file(unoXaml)>>,
      <<projectJson, file(tresXaml), file(unoXaml)>>,
      <<projectJson, file(unoXaml), file(tresXaml)>>,
      <<projectJson, directory(<<"sub-folder">>, <<file(dosXaml)>>), file(unoXaml)>>,
      <<projectJson, directory(<<"sub-folder">>, <<file(dosXaml), file(tresXaml)>>)>>}

exit(c, at) == [c EXCEPT !.pc = "exit", !.failed = at]
uncaught(c, at) == [c EXCEPT !.pc = "uncaught", !.failed = at]

\* lines 33-85: the options, the two paths, `new UiPathProject( program.input )`
\* and `projectInfo.getXamlFiles( true, true )`
CLI_Start ==
  /\ cli.pc = "start"
  /\ LET input == IF cli.program.input = Undefined THEN cwd ELSE cli.program.input.s
         opened == [project EXCEPT !.projectPath = resolved(input)]
     IN IF cli.program.output = Undefined
          THEN cli' = exit(cli, "options") /\ UNCHANGED project
        ELSE IF \A i \in 1..Len(project.entries) :
                  project.entries[i] # file(<<"project", ".json">>)
          THEN cli' = exit(cli, "project") /\ UNCHANGED project
        ELSE /\ project' = opened
             /\ cli' = [cli EXCEPT !.pc = "collect",
                                   !.program.input = Str(resolved(input)),
                                   !.program.output = Str(resolved(cli.program.output.s)),
                                   !.workflowFiles = getXamlFiles(opened, True, True)]
  /\ UNCHANGED <<metadata, last, hist, token, parsed, doc, pc, xmeta, xargs, xerr, probe,
                 disk, output, heap, models>>

\* lines 87-96, one turn of the loop
CLI_Collect ==
  /\ cli.pc = "collect"
  /\ cli.workflowFiles # <<>>
  /\ LET workflowFile == Head(cli.workflowFiles)
         meta == getMetadata(heap, readWorkflow(project, workflowFile))
         named == IF truthy(cli.program.xamlNames)
                    THEN setProjectFilePath(meta.ret, Str(getProjectPath(project)))
                  ELSE [m |-> meta.ret, err |-> NoError]
     IN /\ heap' = meta.heap
        /\ cli' = IF meta.err # NoError \/ named.err # NoError
                    THEN uncaught(cli, "extraction")
                  ELSE [cli EXCEPT !.workflowFiles = Tail(@),
                                   !.workflowMeta = Append(@, named.m)]
  /\ UNCHANGED <<metadata, last, hist, token, parsed, doc, pc, xmeta, xargs, xerr, probe,
                 disk, output, project, models>>

\* variant: the output directory is opened while files are still to be read
CLI_Output_early ==
  /\ cli.pc = "collect"
  /\ LET r == OutputMarkdown_constructor(disk, cli.program.output, cli.program.clean)
     IN /\ output' = r.o
        /\ disk' = r.disk
        /\ cli' = IF r.err # NoError THEN exit(cli, "output") ELSE [cli EXCEPT !.pc = "write"]
  /\ UNCHANGED <<metadata, last, hist, token, parsed, doc, pc, xmeta, xargs, xerr, probe,
                 project, heap, models>>

\* lines 98-106, reached when the loop is over
CLI_Output ==
  /\ cli.pc = "collect"
  /\ cli.workflowFiles = <<>>
  /\ LET r == OutputMarkdown_constructor(disk, cli.program.output, cli.program.clean)
     IN /\ output' = r.o
        /\ disk' = r.disk
        /\ cli' = IF r.err # NoError THEN exit(cli, "output") ELSE [cli EXCEPT !.pc = "write"]
  /\ UNCHANGED <<metadata, last, hist, token, parsed, doc, pc, xmeta, xargs, xerr, probe,
                 project, heap, models>>

\* lines 109-112, one turn of the loop
CLI_Write ==
  /\ cli.pc = "write"
  /\ cli.written < Len(cli.workflowMeta)
  /\ LET r == writeFile(output, disk, deref(heap, cli.workflowMeta[cli.written + 1]))
     IN /\ disk' = r.disk
        /\ cli' = IF r.err # NoError THEN uncaught(cli, "write")
                  ELSE [cli EXCEPT !.written = @ + 1]
  /\ UNCHANGED <<metadata, last, hist, token, parsed, doc, pc, xmeta, xargs, xerr, probe,
                 output, project, heap, models>>

\* lines 114-118
CLI_End ==
  /\ cli.pc = "write"
  /\ cli.written = Len(cli.workflowMeta)
  /\ cli' = [cli EXCEPT !.pc = "done"]
  /\ UNCHANGED <<metadata, last, hist, token, parsed, doc, pc, xmeta, xargs, xerr, probe,
                 disk, output, project, heap, models>>

InitCLI ==
  /\ metadata = NoObject /\ last = NoCall /\ hist = NoHistory
  /\ token = Undefined /\ parsed = NotParsed /\ doc = NoDocument
  /\ pc = "idle" /\ xmeta = NoObject /\ xargs = <<>> /\ xerr = NotThrown
  /\ probe = NoProbe
  /\ disk \in DiskInputs
  /\ output = NoOutput
  /\ \E es \in ProjectDirectoryInputs, pw \in {Undefined, Array(<<tresXaml>>)} :
       project = [projectPath |-> <<>>, entries |-> es, privateWorkflows |-> pw]
  /\ heap = <<>> /\ models = <<>>
  /\ \E program \in ProgramInputs :
       cli = [NoCLI EXCEPT !.pc = "start", !.program = program, !.found = disk]

NextCLI ==
  \/ CLI_Start
  \/ CLI_Collect
  \/ CLI_Output
  \/ CLI_Write
  \/ CLI_End

SpecCLI == InitCLI /\ [][NextCLI]_vars

----------------------------------------------------------------------------
(* Claims *)

\* C1: for every token D(p:T), whatever the prefix p, the call returns
\* normally and returns exactly the pair [D, T].
C1_DecodesDirectionAndType ==
  \A D \in DirectionParts, p \in PrefixParts, T \in TypeParts :
    (parsed.done /\ token = Str(typeToken(D, p, T)))
      => (parsed.err = NoError /\ parsed.ret = <<D, T>>)

C1_Witness ==
  /\ parsed.done
  /\ token = Str(typeToken(<<"InOutArgument">>, <<"s", "cg">>, <<"DataTable">>))
  /\ parsed.ret = <<(<<"InOutArgument">>), (<<"DataTable">>)>>

\* A token has its delimiters when a "(" is followed by a ":" that is
\* followed by a ")".
hasDelimiters(s) ==
  \E i, j, k \in 1..Len(s) :
    i < j /\ j < k /\ s[i] = "(" /\ s[j] = ":" /\ s[k] = ")"

\* C2: a token that is not a string, is empty, or lacks "(", ":" and ")" in
\* that order makes the call throw, and nothing is returned.
C2_MalformedTokenThrows ==
  (parsed.done /\ (token.t # "string" \/ ~hasDelimiters(token.s)))
    => (parsed.err # NoError /\ parsed.ret = <<>>)

\* the arguments in the document whose x:Property elements are `properties`
declaredNames(properties) ==
  {getAttribute(properties[i], <<"Name">>) : i \in 1..Len(properties)}

\* C3: a getMetadata call ends in one of two ways.  When it returns, the
\* name and the description of the model can be read and every argument the
\* document declares is in the map; when it does not, an error was thrown.
C3_ReturnsPopulatedModelOrThrows ==
  /\ pc = "returned" =>
       /\ xerr = NotThrown
       /\ getWorkflowName(xmeta).err = NoError
       /\ getWorkflowAnnotation(xmeta).err = NoError
       /\ \A n \in declaredNames(doc.tree.properties) : mapHas(getArguments(xmeta), n)
       /\ Len(getArguments(xmeta)) = Cardinality(declaredNames(doc.tree.properties))
  /\ pc = "threw" => xerr.err # NoError

C3_Witness ==
  /\ pc = "returned"
  /\ Len(doc.tree.properties) = 2
  /\ Len(getArguments(xmeta)) = 2

\* C4: when the workflow element of the document has no annotation
\* attribute, getMetadata does not fail on the annotation, and the model it
\* returns has the empty string as its description.
C4_MissingAnnotationIsEmptyDescription ==
  (/\ pc \in {"returned", "threw"}
   /\ doc.tree.parsed
   /\ workflowElements(doc.tree) # <<>>
   /\ ~hasAttribute(workflowElements(doc.tree)[1], AnnotationText))
    => /\ xerr.at # "annotation"
       /\ pc = "returned" => getWorkflowAnnotation(xmeta).ret = Str(<<>>)

noWorkflowElement(t) ==
  \/ t.root.tag # "Activity"
  \/ \A i \in 1..Len(t.children) : t.children[i].tag \notin {"Flowchart", "Sequence"}

\* C5: on a document with neither a Flowchart nor a Sequence directly under
\* the outermost Activity, getWorkflowName throws, getWorkflowAnnotation
\* throws, and getMetadata throws without getting past the workflow name.
C5_NoWorkflowElementFails ==
  (doc.tree.parsed /\ noWorkflowElement(doc.tree))
    => /\ probe.op = "getWorkflowName" => probe.err # NoError
       /\ probe.op = "getWorkflowAnnotation" => probe.err # NoError
       /\ pc \notin {"annotation", "arguments", "forEach", "returned"}
       /\ pc = "threw" => xerr.err # NoError

C5_Witness ==
  /\ doc.tree.parsed
  /\ doc.tree.root.tag = "Activity"
  /\ doc.tree.children = <<>>
  /\ pc = "threw"
  /\ xerr.at = "name"

isDirection(v) == v.t = "string" /\ v.s \in {<<"InArgument">>, <<"OutArgument">>, <<"InOutArgument">>}

nonEmptyString(v) == v.t = "string" /\ v.s # <<>>

\* an addArgument call whose parameters other than direction are acceptable
otherParametersValid(args) ==
  /\ nonEmptyString(args[1])
  /\ nonEmptyString(args[3])
  /\ args[4].t = "string"
  /\ args[5].t = "string"

namesLegalDirections(msg) ==
  \A d \in {"InArgument", "OutArgument", "InOutArgument"} : \E i \in 1..Len(msg) : msg[i] = d

\* C6 as claimed: a direction outside the three makes addArgument throw a
\* TypeError whose message lists the three; with one of the three and valid
\* other parameters the call returns normally and get( name ) is then the
\* record of the five values passed.
C6_DirectionDecidesAsClaimed ==
  last.op = "addArgument" =>
    /\ ~isDirection(last.args[2]) =>
         (last.err.kind = "TypeError" /\ namesLegalDirections(last.err.msg))
    /\ (isDirection(last.args[2]) /\ otherParametersValid(last.args)) =>
         /\ last.err = NoError
         /\ mapGet(getArguments(metadata), last.args[1].s)
              = [name |-> last.args[1].s, direction |-> last.args[2].s,
                 type |-> last.args[3].s, annotation |-> last.args[4].s,
                 defaultValue |-> last.args[5].s]

\* C6, amended: a direction outside the three makes addArgument throw a
\* TypeError; the message lists the three when the name is a non-empty
\* string and the direction is a non-empty string.  With one of the three
\* and valid other parameters the call returns normally and get( name ) is
\* then the record of the five values as stored: each trimmed, the first run
\* of line breaks of the annotation replaced by a space, the first "[" and
\* the first "]" of the default value removed.
C6_DirectionDecides ==
  last.op = "addArgument" =>
    /\ ~isDirection(last.args[2]) => last.err.kind = "TypeError"
    /\ (~isDirection(last.args[2]) /\ nonEmptyString(last.args[1])
          /\ nonEmptyString(last.args[2])) => namesLegalDirections(last.err.msg)
    /\ (isDirection(last.args[2]) /\ otherParametersValid(last.args)) =>
         /\ last.err = NoError
         /\ mapGet(getArguments(metadata), last.args[1].s)
              = [name |-> trim(last.args[1].s),
                 direction |-> last.args[2].s,
                 type |-> trim(last.args[3].s),
                 annotation |-> replaceLineBreaks(trim(last.args[4].s)),
                 defaultValue |-> replace(replace(trim(last.args[5].s), "[", <<>>), "]", <<>>)]

C6_Witness ==
  /\ last.op = "addArgument"
  /\ last.args[2] = Str(<<"InOutArgument">>)
  /\ last.args[5] = Str(<<"[", "v", "]">>)
  /\ last.err = NoError
  /\ mapGet(getArguments(metadata), last.args[1].s).defaultValue = <<"v">>

\* C7: every record in the arguments map has one of the three directions.
C7_StoredDirectionsAreValid ==
  \A i \in 1..Len(getArguments(metadata)) :
    getArguments(metadata)[i].value.direction
      \in {<<"InArgument">>, <<"OutArgument">>, <<"InOutArgument">>}

C7_Witness ==
  /\ Len(getArguments(metadata)) = 2
  /\ getArguments(metadata)[1].value.direction # getArguments(metadata)[2].value.direction
  /\ last.op = "addArgument"
  /\ last.args[2] = Str(<<"both">>)
  /\ last.err # NoError

\* C8: no entry of the arguments map has the empty string as its key, and
\* every record in it has a non-empty name and a non-empty type.
C8_StoredNamesAndTypesAreNotEmpty ==
  \A i \in 1..Len(getArguments(metadata)) :
    /\ getArguments(metadata)[i].key # <<>>
    /\ getArguments(metadata)[i].value.name # <<>>
    /\ getArguments(metadata)[i].value.type # <<>>

\* C9: while no setWorkflowName call has returned normally, getWorkflowName
\* throws a ReferenceError; the same for the annotation.
C9_UnsetFieldThrowsReferenceError ==
  /\ (last.op = "getWorkflowName" /\ hist.nameSets = 0)
       => last.err.kind = "ReferenceError"
  /\ (last.op = "getWorkflowAnnotation" /\ hist.annotationSets = 0)
       => last.err.kind = "ReferenceError"

C9_Witness ==
  /\ last.op = "getWorkflowName"
  /\ hist.nameSets = 0
  /\ hist.annotationSets > 0
  /\ Len(getArguments(metadata)) > 0
  /\ last.err.kind = "ReferenceError"

\* C10: after exactly one setWorkflowName call has returned normally,
\* getWorkflowName returns the value that call was given; the same for the
\* annotation.
C10_ReadsBackWhatWasSet ==
  /\ (last.op = "getWorkflowName" /\ hist.nameSets = 1)
       => (last.err = NoError /\ last.ret = hist.nameArg)
  /\ (last.op = "getWorkflowAnnotation" /\ hist.annotationSets = 1)
       => (last.err = NoError /\ last.ret = hist.annotationArg)

\* C11: once the name has been set, a setWorkflowName call does not change
\* what getWorkflowName returns; the same for the annotation.
C11_SetFieldsStay ==
  [][/\ (last'.op = "setWorkflowName" /\ hist.nameSets > 0)
          => getWorkflowName(metadata').ret = getWorkflowName(metadata).ret
     /\ (last'.op = "setWorkflowAnnotation" /\ hist.annotationSets > 0)
          => getWorkflowAnnotation(metadata').ret = getWorkflowAnnotation(metadata).ret]_vars

activityRoot == doc.tree.parsed /\ doc.tree.root.tag = "Activity"

probedDefaultValue ==
  /\ pc = "probed"
  /\ probe.op = "getArgumentDefaultValue"
  /\ activityRoot
  /\ nonEmptyString(probe.args[1])

\* the value of x:Class on the outermost element, and the attributes of that
\* element named this:<ClassName>.<argumentName>
classValues == {a.value : a \in {b \in doc.tree.root.attrs : b.name = <<"x:Class">>}}

defaultsOf(argumentName) ==
  {a \in doc.tree.root.attrs :
     \E c \in (IF classValues = {} THEN {<<>>} ELSE classValues) :
       a.name = <<"this:">> \o c \o <<".">> \o argumentName}

wrapped(v) == Len(v) >= 2 /\ v[1] = "[" /\ v[Len(v)] = "]"

unwrap(v) == SubSeq(v, 2, Len(v) - 1)

\* C13: an argument of the model that getMetadata builds, declared with a
\* default value of the form [...], has that value without its first and
\* last character as its defaultValue.
C13_WrappedDefaultIsUnwrapped ==
  \A i \in 1..Len(getArguments(xmeta)) :
    \A a \in defaultsOf(getArguments(xmeta)[i].key) :
      wrapped(a.value) =>
        getArguments(xmeta)[i].value.defaultValue = unwrap(a.value)

\* the document with one workflow element, and the same document with the
\* other of the two tags on that element
oneWorkflowElement ==
  /\ activityRoot
  /\ Len(doc.tree.children) = 1
  /\ doc.tree.children[1].tag \in {"Flowchart", "Sequence"}

otherShape(xamlDoc) ==
  [xamlDoc EXCEPT !.children =
     <<[xamlDoc.children[1] EXCEPT
          !.tag = IF @ = "Flowchart" THEN "Sequence" ELSE "Flowchart"]>>]

\* C15: getWorkflowName and getWorkflowAnnotation give the same outcome on
\* a document and on the document that differs from it only in the tag,
\* Flowchart or Sequence, of its workflow element.
C15_ShapeDoesNotChangeExtraction ==
  /\ (pc = "probed" /\ probe.op = "getWorkflowName" /\ oneWorkflowElement) =>
       /\ probe.ret = XamlProcessor_getWorkflowName(otherShape(doc.tree)).ret
       /\ probe.err = XamlProcessor_getWorkflowName(otherShape(doc.tree)).err
  /\ (pc = "probed" /\ probe.op = "getWorkflowAnnotation" /\ oneWorkflowElement) =>
       /\ probe.ret = XamlProcessor_getWorkflowAnnotation(otherShape(doc.tree)).ret
       /\ probe.err = XamlProcessor_getWorkflowAnnotation(otherShape(doc.tree)).err

C15_Witness ==
  /\ pc = "probed"
  /\ probe.op = "getWorkflowAnnotation"
  /\ oneWorkflowElement
  /\ doc.tree.children[1].tag = "Flowchart"
  /\ probe.ret = <<"Hello">>

\* an addArgument call, with acceptable parameters, for a name that is a key
\* of the map already
repeatedAdd ==
  /\ last'.op = "addArgument"
  /\ mapHas(getArguments(metadata), last'.args[1].s)
  /\ isDirection(last'.args[2])
  /\ otherParametersValid(last'.args)

entriesOf(map, k) == {i \in 1..Len(map) : map[i].key = k}

\* C16 as claimed: a repeated addArgument call returns normally, leaves the
\* size of the map as it was and one entry for the name, and that entry is
\* the record of the five values passed.
C16_LastCallWinsAsClaimed ==
  [][repeatedAdd =>
       /\ last'.err = NoError
       /\ Len(getArguments(metadata')) = Len(getArguments(metadata))
       /\ Cardinality(entriesOf(getArguments(metadata'), last'.args[1].s)) = 1
       /\ mapGet(getArguments(metadata'), last'.args[1].s)
            = [name |-> last'.args[1].s, direction |-> last'.args[2].s,
               type |-> last'.args[3].s, annotation |-> last'.args[4].s,
               defaultValue |-> last'.args[5].s]]_vars

\* C16, amended: a repeated addArgument call returns normally, leaves the
\* size of the map as it was and one entry for the name, and that entry is
\* the record of the five values of this call as stored: each trimmed, the
\* first run of line breaks of the annotation replaced by a space, the first
\* "[" and the first "]" of the default value removed.
C16_LastCallWins ==
  [][repeatedAdd =>
       /\ last'.err = NoError
       /\ Len(getArguments(metadata')) = Len(getArguments(metadata))
       /\ Cardinality(entriesOf(getArguments(metadata'), last'.args[1].s)) = 1
       /\ mapGet(getArguments(metadata'), last'.args[1].s)
            = [name |-> trim(last'.args[1].s),
               direction |-> last'.args[2].s,
               type |-> trim(last'.args[3].s),
               annotation |-> replaceLineBreaks(trim(last'.args[4].s)),
               defaultValue |->
                 replace(replace(trim(last'.args[5].s), "[", <<>>), "]", <<>>)]]_vars

\* the first key of the map was added again after the second was added
C16_Witness ==
  /\ Len(getArguments(metadata)) = 2
  /\ last.op = "addArgument"
  /\ last.err = NoError
  /\ last.args[1].s = getArguments(metadata)[1].key
  /\ last.args[2].s = getArguments(metadata)[1].value.direction
  /\ last.args[5] = Str(<<>>)

parameterNames == <<"name", "direction", "type", "annotation", "defaultValue">>

\* the parameters of an addArgument call that are not acceptable
invalidParameters(args) ==
  {i \in 1..5 :
     \/ i \in {1, 3} /\ ~nonEmptyString(args[i])
     \/ i = 2 /\ ~isDirection(args[i])
     \/ i \in {4, 5} /\ args[i].t # "string"}

firstInvalid(args) ==
  CHOOSE i \in invalidParameters(args) : \A j \in invalidParameters(args) : i <= j

\* C17: an addArgument call with an unacceptable parameter throws a TypeError
\* whose message begins with the name of the first such parameter, in the
\* order name, direction, type, annotation, defaultValue; a call without one
\* returns normally.  name and type are acceptable when they are non-empty
\* strings, direction when it is one of the three directions, annotation and
\* defaultValue when they are strings, the empty string included.
C17_FirstInvalidParameterIsNamed ==
  last.op = "addArgument" =>
    IF invalidParameters(last.args) = {} THEN last.err = NoError
    ELSE /\ last.err.kind = "TypeError"
         /\ last.err.msg[1] = parameterNames[firstInvalid(last.args)]

C17_Witness ==
  /\ last.op = "addArgument"
  /\ invalidParameters(last.args) = {4, 5}
  /\ last.err.msg[1] = "annotation"

\* C18: a setWorkflowName call whose parameter is missing, not a string or
\* the empty string throws a TypeError and leaves the name field as it was;
\* the same for setWorkflowAnnotation and the annotation field.
C18_RejectedSetLeavesField ==
  [][/\ (last'.op = "setWorkflowName" /\ ~nonEmptyString(last'.args[1])) =>
          /\ last'.err.kind = "TypeError"
          /\ metadata'.workflowName = metadata.workflowName
     /\ (last'.op = "setWorkflowAnnotation" /\ ~nonEmptyString(last'.args[1])) =>
          /\ last'.err.kind = "TypeError"
          /\ metadata'.workflowAnnotation = metadata.workflowAnnotation]_vars

\* the annotation was set, and then a call with the empty string was made
C18_Witness ==
  /\ last.op = "setWorkflowAnnotation"
  /\ last.args[1] = Str(<<>>)
  /\ last.err.kind = "TypeError"
  /\ hist.annotationSets = 1
  /\ metadata.workflowAnnotation = Str(<<"dos">>)

\* C19: a constructor call with a non-empty string returns normally and
\* getFilePath then returns that string; with anything else it throws a
\* TypeError and there is no object; and no call on the object changes what
\* getFilePath returns.
C19_FilePathIsWhatWasSupplied ==
  [][/\ last'.op = "constructor" =>
          IF nonEmptyString(last'.args[1])
            THEN last'.err = NoError /\ getFilePath(metadata').ret = last'.args[1]
          ELSE last'.err.kind = "TypeError" /\ ~metadata'.exists
     /\ metadata.exists => getFilePath(metadata').ret = getFilePath(metadata).ret]_vars

\* every declared property has a Name and a Type
propertiesComplete ==
  \A i \in 1..Len(doc.tree.properties) :
    /\ getAttribute(doc.tree.properties[i], <<"Name">>) # <<>>
    /\ getAttribute(doc.tree.properties[i], <<"Type">>) # <<>>

annotationsOf(e) == {a.value : a \in {b \in e.attrs : b.name = AnnotationText}}

\* C20: on a document whose properties all have a Name and a Type,
\* getWorkflowArguments returns one record for each property, in the order of
\* the document, with the five fields; the name is the property's Name, the
\* annotation its annotation attribute or "" without one, the default value
\* the one declared on the outermost element or "".  Without properties the
\* list is empty, and a model that getMetadata returns has no arguments.
C20_OneRecordPerProperty ==
  /\ (pc = "probed" /\ probe.op = "getWorkflowArguments" /\ activityRoot
        /\ propertiesComplete) =>
       /\ probe.err = NoError
       /\ Len(probe.ret) = Len(doc.tree.properties)
       /\ \A i \in 1..Len(probe.ret) :
            /\ DOMAIN probe.ret[i]
                 = {"name", "direction", "type", "annotation", "defaultValue"}
            /\ probe.ret[i].name = getAttribute(doc.tree.properties[i], <<"Name">>)
            /\ \A a \in annotationsOf(doc.tree.properties[i]) : probe.ret[i].annotation = a
            /\ annotationsOf(doc.tree.properties[i]) = {} => probe.ret[i].annotation = <<>>
            /\ \A d \in defaultsOf(probe.ret[i].name) : probe.ret[i].defaultValue = d.value
            /\ defaultsOf(probe.ret[i].name) = {} => probe.ret[i].defaultValue = <<>>
  /\ (pc = "returned" /\ doc.tree.properties = <<>>) => Len(getArguments(xmeta)) = 0

C20_Witness ==
  /\ pc = "probed"
  /\ probe.op = "getWorkflowArguments"
  /\ Len(probe.ret) = 2
  /\ probe.ret[1].name = <<"Ichi">>
  /\ probe.ret[1].annotation = <<"First">>
  /\ probe.ret[2].name = <<"Ni">>
  /\ probe.ret[2].annotation = <<>>

\* C21: on a document with a property that has no Name or no Type,
\* getWorkflowArguments throws and returns no records, and getMetadata does
\* not return.
C21_IncompletePropertyFails ==
  /\ (pc = "probed" /\ probe.op = "getWorkflowArguments" /\ activityRoot
        /\ ~propertiesComplete) =>
       (probe.err.kind = "TypeError" /\ probe.ret = <<>>)
  /\ (pc = "returned" /\ activityRoot) => propertiesComplete

C21_Witness ==
  /\ pc = "probed"
  /\ probe.op = "getWorkflowArguments"
  /\ Len(doc.tree.properties) = 2
  /\ hasAttribute(doc.tree.properties[1], <<"Name">>)
  /\ getAttribute(doc.tree.properties[1], <<"Type">>) = InString
  /\ ~hasAttribute(doc.tree.properties[2], <<"Name">>)
  /\ getAttribute(doc.tree.properties[2], <<"Type">>) = InString
  /\ probe.err.kind = "TypeError"

\* a constructor call of OutputMarkdown with an output path and without the
\* emptyOutput flag
constructedWithoutFlag ==
  /\ last'.op = "OutputMarkdown"
  /\ nonEmptyString(last'.args[1])
  /\ last'.args[2] \in {Undefined, False}

endsWith(msg, what) == msg # <<>> /\ msg[Len(msg)] = what

noObjectAndNothingDeleted ==
  (last'.op = "OutputMarkdown" /\ last'.err # NoError) =>
    (disk' = disk /\ ~output'.exists)

wroteModel ==
  /\ last'.op = "writeFile"
  /\ last'.args[1].exists
  /\ last'.args[1].workflowName.t = "string"
  /\ last'.args[1].workflowAnnotation.t = "string"

\* the file name the claim gives for a model
claimedFileName(m) ==
  IF m.projectFilePath.t = "string"
    THEN replace([i \in 1..Len(m.projectFilePath.s) |->
                    IF m.projectFilePath.s[i] = "/" THEN "-" ELSE m.projectFilePath.s[i]],
                 ".xaml", <<".md">>)
  ELSE trim(m.workflowName.s) \o <<".md">>

\* C23: a writeFile call with a model whose name and annotation are set
\* returns normally and creates or replaces one file of the output
\* directory: the one named after the project-relative path, with "-" for
\* each separator and .md for .xaml, when that path is set, and after the
\* workflow name followed by .md otherwise.
C23_WritesTheNamedFile ==
  [][wroteModel =>
       /\ last'.err = NoError
       /\ disk'.files = disk.files \cup {claimedFileName(last'.args[1])}]_vars

\* the files of the project directory, each with its path relative to the
\* directory: all of them, or those directly in it
filesInScope ==
  IF defaultFalse(probe.args[1]) = False
    THEN {project.entries[i].name :
            i \in {j \in 1..Len(project.entries) : project.entries[j].kind = "file"}}
  ELSE filesBelow(project.entries, <<>>)

xamlWorkflow(rel) ==
  LET name == splitPath(rel, <<>>)[Len(splitPath(rel, <<>>))]
  IN name[Len(name)] = ".xaml" /\ name[1] # "~"

flaggedPrivate(rel) ==
  project.privateWorkflows.t = "array" /\ rel \in range(project.privateWorkflows.s)

\* a returned path names the file with this relative path
returnedFor(rel) ==
  \E i \in 1..Len(probe.ret) : endsWithString(probe.ret[i], <<"/">> \o rel) \/ probe.ret[i] = rel

\* C24: every path getXamlFiles returns has the extension .xaml and a base
\* name that does not begin with "~"; and with publicOnly, of the files with
\* such a name, the ones the project lists as private are not returned and
\* every other one is.
C24_OnlyPublicXamlFiles ==
  (pc = "probed" /\ probe.op = "getXamlFiles") =>
    /\ \A i \in 1..Len(probe.ret) :
         isXaml(probe.ret[i]) /\ ~startsWith(basename(probe.ret[i]), "~")
    /\ probe.args[2] = True =>
         \A rel \in {r \in filesInScope : xamlWorkflow(r)} :
           returnedFor(rel) <=> ~flaggedPrivate(rel)

----------------------------------------------------------------------------
(* C25 *)

\* the keys of a Map after its entries were set in the order of `names`
RECURSIVE firstOccurrences(_, _)
firstOccurrences(names, seen) ==
  IF names = <<>> THEN seen
  ELSE firstOccurrences(Tail(names),
                        IF \E i \in 1..Len(seen) : seen[i] = Head(names)
                          THEN seen ELSE Append(seen, Head(names)))

\* the Name attributes of the first n x:Property elements of the document
propertyNames(n) == [i \in 1..n |-> getAttribute(doc.tree.properties[i], <<"Name">>)]

keysOf(m) == [i \in 1..Len(getArguments(m)) |-> getArguments(m)[i].key]

\* C25: within one getMetadata call the name is written first, then the
\* description, then the arguments one by one in document order; the name and
\* the description are each written once, into a field that was unset; a step
\* that throws writes nothing, so that after a failure no later step has
\* written to the model; the call returns with all three written.
C25_PopulatedInOrder ==
  [][/\ xmeta'.workflowName # xmeta.workflowName =>
          /\ pc = "name"
          /\ xmeta.workflowName = Undefined
          /\ xmeta.workflowAnnotation = Undefined
          /\ getArguments(xmeta) = <<>>
     /\ xmeta'.workflowAnnotation # xmeta.workflowAnnotation =>
          /\ pc = "annotation"
          /\ xmeta.workflowName # Undefined
          /\ xmeta.workflowAnnotation = Undefined
          /\ getArguments(xmeta) = <<>>
     /\ getArguments(xmeta') # getArguments(xmeta) =>
          /\ pc = "forEach"
          /\ xmeta.workflowName # Undefined
          /\ xmeta.workflowAnnotation # Undefined
          /\ keysOf(xmeta') =
               firstOccurrences(
                 propertyNames(Len(doc.tree.properties) - Len(xargs')), <<>>)
     /\ pc' = "threw" => xmeta' = xmeta
     /\ pc' = "returned" =>
          /\ xmeta.workflowName # Undefined
          /\ xmeta.workflowAnnotation # Undefined
          /\ keysOf(xmeta) =
               firstOccurrences(propertyNames(Len(doc.tree.properties)), <<>>)]_vars

\* the second of two arguments is refused after the first one was added
C25_Witness ==
  /\ pc = "threw" /\ xerr.at = "forEach"
  /\ xmeta.workflowName # Undefined /\ xmeta.workflowAnnotation # Undefined
  /\ Len(getArguments(xmeta)) = 1
  /\ Len(xargs) = 1

----------------------------------------------------------------------------
(* C26 *)

\* what getMetadata returns for the file d when it is the only call made on a
\* new XamlProcessor
extractedAlone(d) == LET r == getMetadata(<<>>, d) IN deref(r.heap, r.ret)

\* C26: whatever calls one XamlProcessor has served and in whatever order,
\* every model it returned is, now and so when it was returned, the model the
\* same file gives when it is extracted alone, and no two returned models hold
\* the same arguments Map.
C26_ExtractionsAreIndependent ==
  /\ \A i \in 1..Len(models) : deref(heap, models[i].m) = extractedAlone(models[i].doc)
  /\ \A i, j \in 1..Len(models) : i # j => models[i].m.arguments # models[j].m.arguments

\* three files with different arguments were extracted, and one of them twice
C26_Witness ==
  /\ Len(models) = 3
  /\ models[1].doc = models[3].doc
  /\ getArguments(deref(heap, models[1].m)) # getArguments(deref(heap, models[2].m))
  /\ getArguments(deref(heap, models[1].m)) # <<>>
  /\ getArguments(deref(heap, models[2].m)) # <<>>

----------------------------------------------------------------------------
(* C27 *)

\* C27: an addArgument call that throws leaves the object as it was: the same
\* keys with the same records in the same order, and the file path, the name
\* and the description untouched.
C27_FailedAddChangesNothing ==
  [][(last'.op = "addArgument" /\ last'.err # NoError) => metadata' = metadata]_vars

\* a call with an accepted name and direction was refused on an object that
\* has a name, a description and an argument
C27_Witness ==
  /\ last.op = "addArgument" /\ last.err # NoError
  /\ nonEmptyString(last.args[1]) /\ isDirection(last.args[2])
  /\ metadata.workflowName # Undefined /\ metadata.workflowAnnotation # Undefined
  /\ getArguments(metadata) # <<>>
  /\ ~mapHas(getArguments(metadata), last.args[1].s)

----------------------------------------------------------------------------
(* C28 *)

\* C28: every entry of the arguments map is keyed by the name of its own
\* record: getArguments().get( k ).name is k.
C28_KeyIsRecordName ==
  \A i \in 1..Len(getArguments(metadata)) :
    mapGet(getArguments(metadata), getArguments(metadata)[i].key).name
      = getArguments(metadata)[i].key

----------------------------------------------------------------------------
(* C29 *)

\* the path of the file with this path relative to the project directory
pathBelowProject(rel) == pathJoin(project.projectPath, rel)

\* C29: a recursive getXamlFiles call returns no path twice, every path it
\* returns is the path of a file below the project directory (the project
\* path joined with the path of the file relative to the project directory),
\* and without publicOnly every workflow file below the project directory is
\* returned under that path.
C29_ReturnsPathsOfVisitedFiles ==
  (pc = "probed" /\ probe.op = "getXamlFiles" /\ probe.args[1] = True) =>
    /\ \A i, j \in 1..Len(probe.ret) : i # j => probe.ret[i] # probe.ret[j]
    /\ \A i \in 1..Len(probe.ret) :
         \E rel \in filesBelow(project.entries, <<>>) : probe.ret[i] = pathBelowProject(rel)
    /\ defaultFalse(probe.args[2]) # True =>
         \A rel \in {r \in filesBelow(project.entries, <<>>) : xamlWorkflow(r)} :
           \E i \in 1..Len(probe.ret) : probe.ret[i] = pathBelowProject(rel)

----------------------------------------------------------------------------
(* C30 *)

\* C30: in a run of the command line program, while the files of the output
\* directory are not what they were when the run began, every workflow file
\* has been extracted and the output directory check has passed; so a run
\* that ended because an extraction failed or because the output directory
\* was refused has written no file and deleted none.
C30_OutputUntouchedUntilAllExtracted ==
  /\ cli.failed \in {"extraction", "output"} => disk = cli.found
  /\ disk # cli.found =>
       /\ cli.workflowFiles = <<>>
       /\ Len(cli.workflowMeta) = Len(getXamlFiles(project, True, True))
       /\ output.exists

\* a run told to clean a directory with markdown files in it extracted one
\* workflow file and ended on the next
C30_Witness ==
  /\ cli.failed = "extraction"
  /\ cli.workflowMeta # <<>>
  /\ truthy(cli.program.clean)
  /\ globMarkdown(disk.files) # {}

====
